---- MODULE Spec2Model ----
(***************************************************************************)
(* Verification model of the obra-abc migration tooling:                   *)
(*   - the link-graph crawler      (scripts/crawl-site.js)                 *)
(*   - the bulk image fetcher      (optimize-images.js, ImageOptimizer)    *)
(*   - the media transcoder        (optimize-article-images.js)            *)
(*   - the content processor       (process-content.js, ContentProcessor)  *)
(*   - the migration orchestrator  (scripts/migrate.js)                    *)
(*   - the image watcher           (scripts/watch-images.js)               *)
(* Each component has its own specification; the variables of the other    *)
(* components stay unchanged under it.                                     *)
(***************************************************************************)
EXTENDS Integers, Sequences, FiniteSets, TLC

(***************************************************************************)
(* Bounds of the model                                                     *)
(***************************************************************************)
\* number of same-origin URLs of the crawled site (URL 1 is the base URL)
NumPages == 3
\* most links one page carries
MaxLinks == 2
\* number of distinct image URLs the site's pages may show
NumImgs == 1
\* most entries of the image list the fetcher is given
MaxImages == 2
\* how many times the fetcher (the transcoder) is run over the same input
MaxRuns == 2
\* most entries of the transcoder's source directory
MaxSources == 2
\* last value of the file system clock
MaxClock == 2
\* most encodings that fail
MaxEncodeFailures == 1
\* most page records pages-data.json holds
MaxPagesData == 2
\* most change events the watcher delivers
MaxEvents == 4

(***************************************************************************)
(* Program constants                                                       *)
(***************************************************************************)
\* crawl-site.js:52  const batchSize = 5
CrawlBatchSize == 5
\* ImageOptimizer.optimizeAllImages  const batchSize = 5
FetchBatchSize == 5

(***************************************************************************)
(* State                                                                   *)
(***************************************************************************)
\* The crawler (ObraABCSiteCrawler)
VARIABLES
    cpc,            \* position of crawlSite
    visitedUrls,    \* this.visitedUrls
    pagesData,      \* this.pagesData: sequence of page records (their url)
    internalLinks,  \* this.internalLinks: insertion-ordered Set
    images,         \* this.images: Set of image objects, in insertion order
    errors,         \* this.errors: sequence of {url, error}
    currentBatch,   \* crawlSite's currentBatch array
    batchIdx,       \* crawlSite's loop index i (0-based)
    task,           \* per URL: position of its crawlPage call
    fetches,        \* history: page.goto calls started, per URL
    siteLinks,      \* history: the same-origin links found on each URL
    linksDone,      \* history: URLs whose links were extracted
    raised,         \* history: URLs of crawlPage calls in which an error was thrown
    fatal,          \* history: URLs whose error reached crawlSite's caller
    refused         \* history: the extracted links isInternalLink returned false for

crawlVars == <<cpc, visitedUrls, pagesData, internalLinks, images, errors,
               currentBatch, batchIdx, task, fetches, siteLinks, linksDone,
               raised, fatal, refused>>

\* The bulk image fetcher (ImageOptimizer) and the clock
VARIABLES
    now,               \* the clock Date.now() reads
    fpc,               \* position of optimizeAllImages
    frun,              \* which run of the fetcher this is (1 = first)
    imageList,         \* the parsed images-list.json
    fbatchIdx,         \* optimizeAllImages' loop index i (0-based)
    ftask,             \* per list index: position and outputPath of processImage
    files,             \* the output directory: filename -> "partial" | "complete"
    downloadedImages,  \* this.downloadedImages
    ferrors,           \* this.errors
    manifest,          \* image-manifest.json as last written
    started,           \* history: downloads started in this run, per list index
    fraised,           \* history: list indexes whose processImage threw, this run
    ffatal,            \* history: did optimizeAllImages throw
    prevClean          \* history: the previous run completed without any error

fetchVars == <<now, fpc, frun, imageList, fbatchIdx, ftask, files,
               downloadedImages, ferrors, manifest, started, fraised, ffatal,
               prevClean>>

\* The media transcoder (optimize-article-images) and its file system
VARIABLES
    tpc,        \* position of main / processDirectory
    trun,       \* which run of the transcoder this is (1 = first)
    sharpOk,    \* does import('sharp') succeed in this installation
    srcFiles,   \* the source tree in readdir order: [name, image, mtime]
    tIdx,       \* index in srcFiles of the entry being processed
    vIdx,       \* index (0..7) of the next size/format of the current image
    outFiles,   \* the output tree: name -> [mtime, content]
    tclock,     \* the file system's clock
    twrites,    \* history: output files opened for writing in this run
    tfailed,    \* history: variants whose encoding threw, over all runs
    tlogged,    \* history: variants whose error was only printed
    tfatal,     \* history: did processDirectory throw in this run
    tpartial,   \* history: paths where a failed write replaced a valid file
    tquiet,     \* history: no source changed and nothing failed since run 1 began
    tlast,      \* history: the last staleness test of a variant and what followed
    twriters,   \* history: per output path, the source entries that wrote it in this run
    tattempted, \* history: <<entry index, variant>> pairs whose pass ran in this run
    temitted    \* history: the files sharp wrote completely in this run, with their pixel width

transVars == <<tpc, trun, sharpOk, srcFiles, tIdx, vIdx, outFiles, tclock,
               twrites, tfailed, tlogged, tfatal, tpartial, tquiet, tlast,
               twriters, tattempted, temitted>>

\* The content processor (ContentProcessor)
VARIABLES
    kpc,             \* position of processAllContent
    allPagesData,    \* the parsed pages-data.json
    contentPages,    \* processAllContent's pagesData: the records that passed the filter
    pageIdx,         \* index in contentPages of the page the for loop is at
    contentFiles,    \* the content directory: [dir, slug] -> [page, content]
    processedPages,  \* this.processedPages
    redirects,       \* redirects.json as last written
    procWrites,      \* history: completed writes per content path
    procTried,       \* history: indexes of the pages processPage was called for
    procRaised,      \* history: indexes of the pages whose processing raised an error
    procFatal,       \* history: did processAllContent throw
    skipLog          \* the "Skipping ..." lines isValidContentPage printed

contentVars == <<kpc, allPagesData, contentPages, pageIdx, contentFiles,
                 processedPages, redirects, procWrites, procTried, procRaised,
                 procFatal, skipLog>>

\* The migration orchestrator (MigrationOrchestrator.runFullMigration)
VARIABLES
    mpc,          \* the awaited call control is at (index in MigrationSteps; 0: ended)
    mexit,        \* the exit status of the process ("0", "1"), "running" before it ends
    mstarted,     \* history: the stages started, in order
    mcompleted,   \* history: the stages completed, in order
    mfailed,      \* history: the stages in which an error was raised
    mthrew,       \* history: the stage whose error reached runFullMigration's catch
    diskLists,    \* the images-list.json file in each of the two directories
    crawlImages,  \* the images the crawl stage of this run found
    mloaded,      \* history: what optimizeAllImages found when it read its list
    mbrowser      \* the crawler's this.browser: "none", "open" or "closed"

migrateVars == <<mpc, mexit, mstarted, mcompleted, mfailed, mthrew, diskLists,
                 crawlImages, mloaded, mbrowser>>

\* The image watcher (scripts/watch-images.js)
VARIABLES
    wpc,                  \* position of the script: "none", "initial", "watching", "exited"
    isOptimizing,         \* let isOptimizing
    pendingOptimization,  \* let pendingOptimization
    debounce,             \* number of armed timers set by watchImages (watchImages.timeout)
    reruns,               \* number of armed timers set by runOptimization's finally block
    wevents,              \* history: number of events the watcher delivered
    wlast,                \* history: the filename of the last event delivered
    wimages,              \* history: number of delivered events that named an image file
    wactive,              \* history: optimizeArticleImages calls of runOptimization in progress
    wunserved,            \* history: an image changed and no run has started since
    wlate,                \* history: the fate of an image change that arrived during a run
    wbursts,              \* history: image events that found no debounce timer armed
    wdcalls,              \* history: runOptimization calls made by debounce timers
    wfailed               \* history: a run started by runOptimization has failed

watchVars == <<wpc, isOptimizing, pendingOptimization, debounce, reruns, wevents,
               wlast, wimages, wactive, wunserved, wlate, wbursts, wdcalls,
               wfailed>>

vars == <<crawlVars, fetchVars, transVars, contentVars, migrateVars, watchVars>>

\* What the actions of one component leave alone.
notCrawl == <<fetchVars, transVars, contentVars, migrateVars, watchVars>>
notFetch == <<crawlVars, transVars, contentVars, migrateVars, watchVars>>
notTrans == <<crawlVars, fetchVars, contentVars, migrateVars, watchVars>>
notContent == <<crawlVars, fetchVars, transVars, migrateVars, watchVars>>
notMigrate == <<crawlVars, fetchVars, transVars, contentVars, watchVars>>
notWatch == <<crawlVars, fetchVars, transVars, contentVars, migrateVars>>

(***************************************************************************)
(* Small helpers                                                           *)
(***************************************************************************)
Range(s) == {s[i] : i \in 1..Len(s)}

SeqsUpTo(S, n) == UNION {[1..k -> S] : k \in 0..n}

\* Number of positions of s holding x.
RECURSIVE Count(_, _)
Count(s, x) ==
    IF s = <<>> THEN 0
    ELSE (IF Head(s) = x THEN 1 ELSE 0) + Count(Tail(s), x)

\* Insertion-ordered Set.add: append x unless already a member.
SetAdd(s, x) == IF x \in Range(s) THEN s ELSE Append(s, x)

RECURSIVE SetAddAll(_, _)
SetAddAll(s, xs) ==
    IF xs = <<>> THEN s ELSE SetAddAll(SetAdd(s, Head(xs)), Tail(xs))

(***************************************************************************)
(* CRAWLER  (scripts/crawl-site.js)                                        *)
(***************************************************************************)
\* URLs are numbers: 1..NumPages are URLs of the crawled host, ExtUrl is a
\* well-formed URL of another host, BadUrl is a string that does not parse.
BaseUrl == 1
ExtUrl == 0
BadUrl == -1
Pages == 1..NumPages
Targets == Pages \cup {ExtUrl, BadUrl}
ImgUrls == 1..NumImgs

\* new URL(url): does the string parse
Parses(url) == url # BadUrl
\* new URL(url).hostname
Hostname(url) == IF url \in Pages THEN "obraabc.org" ELSE "other.example"

\* Mutant of isInternalLink: every URL that parses is taken for internal.
isInternalLinkAnyHost(url) ==
    IF Parses(url) THEN TRUE ELSE FALSE

\* isInternalLink(url)  (lines 208-216)
isInternalLink(url) ==
    IF Parses(url) THEN Hostname(url) = Hostname(BaseUrl) ELSE FALSE

Settled == {"fulfilled", "rejected"}

CrawlInit ==
    /\ cpc = "init"
    /\ visitedUrls = {}
    /\ pagesData = <<>>
    /\ internalLinks = <<>>
    /\ images = <<>>
    /\ errors = <<>>
    /\ currentBatch = <<>>
    /\ batchIdx = 0
    /\ task = [u \in Pages |-> "idle"]
    /\ fetches = [u \in Pages |-> 0]
    /\ siteLinks = [u \in Pages |-> {}]
    /\ linksDone = {}
    /\ raised = {}
    /\ fatal = {}
    /\ refused = {}

\* Mutant of Frontier: the visited filter is forgotten.
FrontierUnfiltered(links, visited) == links

\* getInternalLinks() filtered by !visitedUrls.has(url)   (lines 46, 64)
Frontier(links, visited) == SelectSeq(links, LAMBDA u : u \notin visited)

\* batch = currentBatch.slice(i, i + batchSize)           (line 54)
Slice(s, i) ==
    SubSeq(s, i + 1, IF i + CrawlBatchSize < Len(s) THEN i + CrawlBatchSize ELSE Len(s))

\* Mutant of MarkVisited: the URL is not marked.
MarkVisitedNot(visited, url) == visited

\* The synchronous head of crawlPage (lines 75-80): the visited test, the
\* mark, and the call of context.newPage().  Gives the new visited set.
MarkVisited(visited, url) == visited \cup {url}

\* batch.map(url => this.crawlPage(context, url)): the synchronous heads of
\* all calls run back to back, before any of them resumes.
RECURSIVE LaunchVisited(_, _)
LaunchVisited(visited, batch) ==
    IF batch = <<>> THEN visited
    ELSE LaunchVisited(MarkVisited(visited, Head(batch)), Tail(batch))

RECURSIVE LaunchTasks(_, _, _)
LaunchTasks(tk, visited, batch) ==
    IF batch = <<>> THEN tk
    ELSE LET u == Head(batch) IN
         LaunchTasks(
            [tk EXCEPT ![u] = IF u \in visited THEN "fulfilled" ELSE "newPage"],
            MarkVisited(visited, u), Tail(batch))

Launch(batch) ==
    /\ task' = LaunchTasks(task, visitedUrls, batch)
    /\ visitedUrls' = LaunchVisited(visitedUrls, batch)

\* crawlSite lines 36-43: newContext, then the call crawlPage(baseUrl).
CrawlSiteBegin ==
    /\ cpc = "init"
    /\ \E ok \in BOOLEAN :
         IF ok
         THEN /\ Launch(<<BaseUrl>>)
              /\ cpc' = "homepage"
         ELSE \* browser.newContext() rejects: crawlSite throws before its try
              /\ cpc' = "failed"
              /\ UNCHANGED <<task, visitedUrls>>
    /\ UNCHANGED notCrawl
    /\ UNCHANGED refused
    /\ UNCHANGED <<pagesData, internalLinks, images, errors, currentBatch,
                   batchIdx, fetches, siteLinks, linksDone, raised, fatal>>

\* await context.newPage() settles (line 80; outside the try block).
NewPageSettles(u) ==
    /\ task[u] = "newPage"
    /\ \E ok \in BOOLEAN :
         IF ok
         THEN /\ task' = [task EXCEPT ![u] = "goto"]
              /\ fetches' = [fetches EXCEPT ![u] = @ + 1]
              /\ UNCHANGED raised
         ELSE /\ task' = [task EXCEPT ![u] = "rejected"]
              /\ raised' = raised \cup {u}
              /\ UNCHANGED fetches
    /\ UNCHANGED notCrawl
    /\ UNCHANGED refused
    /\ UNCHANGED <<cpc, visitedUrls, pagesData, internalLinks, images, errors,
                   currentBatch, batchIdx, siteLinks, linksDone, fatal>>

\* The catch block (lines 111-113) followed by the call of page.close().
Catch(u) ==
    /\ errors' = Append(errors, u)
    /\ raised' = raised \cup {u}
    /\ task' = [task EXCEPT ![u] = "close"]

\* await page.goto() and page.waitForTimeout() settle (lines 84-90).
GotoSettles(u) ==
    /\ task[u] = "goto"
    /\ \E ok \in BOOLEAN :
         IF ok
         THEN /\ task' = [task EXCEPT ![u] = "extractData"]
              /\ UNCHANGED <<errors, raised>>
         ELSE Catch(u)
    /\ UNCHANGED notCrawl
    /\ UNCHANGED refused
    /\ UNCHANGED <<cpc, visitedUrls, pagesData, internalLinks, images,
                   currentBatch, batchIdx, fetches, siteLinks, linksDone, fatal>>

\* await extractPageData() settles; pagesData.push (lines 93-94).
ExtractDataSettles(u) ==
    /\ task[u] = "extractData"
    /\ \E ok \in BOOLEAN :
         IF ok
         THEN /\ pagesData' = Append(pagesData, u)
              /\ task' = [task EXCEPT ![u] = "extractLinks"]
              /\ UNCHANGED <<errors, raised>>
         ELSE /\ Catch(u)
              /\ UNCHANGED pagesData
    /\ UNCHANGED notCrawl
    /\ UNCHANGED refused
    /\ UNCHANGED <<cpc, visitedUrls, internalLinks, images, currentBatch,
                   batchIdx, fetches, siteLinks, linksDone, fatal>>

\* Mutant of AddInternalLinks: only the first internal link is kept.
AddInternalLinksFirst(acc, links) ==
    LET int == SelectSeq(links, isInternalLink)
    IN  IF int = <<>> THEN acc ELSE SetAdd(acc, Head(int))

\* links.forEach(...) of lines 98-103
AddInternalLinks(acc, links) == SetAddAll(acc, SelectSeq(links, isInternalLink))

\* await extractLinks() settles; the internal links are added (lines 97-103).
ExtractLinksSettles(u) ==
    /\ task[u] = "extractLinks"
    /\ \/ \E links \in SeqsUpTo(Targets, MaxLinks) :
            /\ internalLinks' = AddInternalLinks(internalLinks, links)
            /\ siteLinks' = [siteLinks EXCEPT ![u] = {l \in Range(links) : isInternalLink(l)}]
            /\ refused' = refused \cup {l \in Range(links) : ~isInternalLink(l)}
            /\ linksDone' = linksDone \cup {u}
            /\ task' = [task EXCEPT ![u] = "extractImages"]
            /\ UNCHANGED <<errors, raised>>
       \/ /\ Catch(u)
          /\ UNCHANGED <<internalLinks, siteLinks, linksDone, refused>>
    /\ UNCHANGED notCrawl
    /\ UNCHANGED <<cpc, visitedUrls, pagesData, images, currentBatch,
                   batchIdx, fetches, fatal>>

\* images.forEach(img => this.images.add(img)): every extracted image is a
\* fresh object, so Set.add never finds it present (line 107).
RECURSIVE AddImages(_, _, _)
AddImages(acc, u, imgs) ==
    IF imgs = <<>> THEN acc
    ELSE AddImages(Append(acc, [page |-> u, src |-> Head(imgs)]), u, Tail(imgs))

\* await extractImages() settles (lines 106-107), then finally: page.close().
ExtractImagesSettles(u) ==
    /\ task[u] = "extractImages"
    /\ \/ \E imgs \in SeqsUpTo(ImgUrls, 1) :
            /\ images' = AddImages(images, u, imgs)
            /\ task' = [task EXCEPT ![u] = "close"]
            /\ UNCHANGED <<errors, raised>>
       \/ /\ Catch(u)
          /\ UNCHANGED images
    /\ UNCHANGED notCrawl
    /\ UNCHANGED refused
    /\ UNCHANGED <<cpc, visitedUrls, pagesData, internalLinks, currentBatch,
                   batchIdx, fetches, siteLinks, linksDone, fatal>>

\* await page.close() in the finally block settles (line 115).
CloseSettles(u) ==
    /\ task[u] = "close"
    /\ \E ok \in BOOLEAN :
         IF ok
         THEN /\ task' = [task EXCEPT ![u] = "fulfilled"]
              /\ UNCHANGED raised
         ELSE /\ task' = [task EXCEPT ![u] = "rejected"]
              /\ raised' = raised \cup {u}
    /\ UNCHANGED notCrawl
    /\ UNCHANGED refused
    /\ UNCHANGED <<cpc, visitedUrls, pagesData, internalLinks, images, errors,
                   currentBatch, batchIdx, fetches, siteLinks, linksDone, fatal>>

\* Start the batch at index i of batch list b, or leave the while loop when
\* b is empty (lines 48, 53-57, 67).
StartBatch(b, i) ==
    IF b = <<>>
    THEN /\ cpc' = "closing"
         /\ UNCHANGED <<task, visitedUrls>>
    ELSE /\ cpc' = "batch"
         /\ Launch(Slice(b, i))

\* await this.crawlPage(context, this.baseUrl) returns (lines 43-46).
HomepageSettles ==
    /\ cpc = "homepage"
    /\ task[BaseUrl] \in Settled
    /\ IF task[BaseUrl] = "rejected"
       THEN /\ cpc' = "closingFailed"
            /\ fatal' = fatal \cup {BaseUrl}
            /\ UNCHANGED <<currentBatch, batchIdx, task, visitedUrls>>
       ELSE /\ currentBatch' = Frontier(internalLinks, visitedUrls)
            /\ batchIdx' = 0
            /\ StartBatch(currentBatch', 0)
            /\ UNCHANGED fatal
    /\ UNCHANGED notCrawl
    /\ UNCHANGED refused
    /\ UNCHANGED <<pagesData, internalLinks, images, errors, fetches,
                   siteLinks, linksDone, raised>>

\* await Promise.allSettled(...) returns; the delay timer is armed (55-60).
BatchSettles ==
    /\ cpc = "batch"
    /\ \A u \in Range(Slice(currentBatch, batchIdx)) : task[u] \in Settled
    /\ cpc' = "delay"
    /\ UNCHANGED notCrawl
    /\ UNCHANGED refused
    /\ UNCHANGED <<visitedUrls, pagesData, internalLinks, images, errors,
                   currentBatch, batchIdx, task, fetches, siteLinks, linksDone,
                   raised, fatal>>

\* The 1000 ms timer fires: next slice of the for loop, or next frontier
\* (lines 53, 60-64).
DelayElapses ==
    /\ cpc = "delay"
    /\ IF batchIdx + CrawlBatchSize < Len(currentBatch)
       THEN /\ batchIdx' = batchIdx + CrawlBatchSize
            /\ StartBatch(currentBatch, batchIdx')
            /\ UNCHANGED currentBatch
       ELSE /\ currentBatch' = Frontier(internalLinks, visitedUrls)
            /\ batchIdx' = 0
            /\ StartBatch(currentBatch', 0)
    /\ UNCHANGED notCrawl
    /\ UNCHANGED refused
    /\ UNCHANGED <<pagesData, internalLinks, images, errors, fetches,
                   siteLinks, linksDone, raised, fatal>>

\* finally: await context.close() (line 70); crawlSite returns or throws.
ContextCloses ==
    /\ cpc \in {"closing", "closingFailed"}
    /\ \E ok \in BOOLEAN :
         cpc' = IF ok /\ cpc = "closing" THEN "done" ELSE "failed"
    /\ UNCHANGED notCrawl
    /\ UNCHANGED refused
    /\ UNCHANGED <<visitedUrls, pagesData, internalLinks, images, errors,
                   currentBatch, batchIdx, task, fetches, siteLinks, linksDone,
                   raised, fatal>>

(***************************************************************************)
(* Crawler properties                                                      *)
(***************************************************************************)
Terminated == cpc \in {"done", "failed"}
InFlight == {"newPage", "goto", "extractData", "extractLinks", "extractImages", "close"}

\* C1: in one crawl run every URL is fetched (page.goto) at most once and
\* has at most one record in pagesData, whatever the interleaving of the
\* batch members.
C1_FetchedAtMostOnce ==
    \A u \in Pages : fetches[u] <= 1 /\ Count(pagesData, u) <= 1

\* Two members of one batch are in flight together, both already fetched,
\* while the base page that linked to them has its record.
C1_Witness ==
    /\ cpc = "batch"
    /\ \E u, v \in Pages :
         /\ u # v
         /\ fetches[u] = 1 /\ fetches[v] = 1
         /\ task[u] \in InFlight /\ task[v] \in InFlight
    /\ Count(pagesData, BaseUrl) = 1

\* The while loop of crawlSite has been left (line 67 reached).
LoopExited == cpc \in {"closing", "done"}

\* C2: with every awaited operation settling, crawlSite terminates for
\* every link graph (cycles and self-links included) and every pattern of
\* page failures, and the loop is left only with an empty frontier.
C2_Terminates ==
    /\ <>Terminated
    /\ [](LoopExited => Frontier(internalLinks, visitedUrls) = <<>>)

\* A finished crawl of a graph with a self-link and a link back to the base
\* URL, in which some page failed.
C2_Witness ==
    /\ cpc = "done"
    /\ \E u \in Pages \ {BaseUrl} : u \in siteLinks[u] /\ BaseUrl \in siteLinks[u]
    /\ errors # <<>>

\* The URLs reached from the start URL by following the same-origin links
\* found on pages whose links were extracted.
RECURSIVE Closure(_)
Closure(S) ==
    LET T == S \cup UNION {siteLinks[u] : u \in S \cap linksDone}
    IN  IF T = S THEN S ELSE Closure(T)

ReachByLinks == Closure({BaseUrl})

C4_FailureRecordedNoAbort ==
    /\ \A u \in raised : Count(errors, u) = 1
    /\ fatal = {}

\* Does url parse and carry the start URL's hostname.
SameHost(url) == Parses(url) /\ Hostname(url) = Hostname(BaseUrl)

\* C28: every URL among the discovered links, in the frontier or visited
\* parses and has the start URL's hostname; the links refused are exactly
\* the malformed and other-host ones and none of them is ever enqueued or
\* visited.
C28_OnlySameHostEnqueued ==
    /\ \A u \in Range(internalLinks) \cup Range(currentBatch) \cup visitedUrls : SameHost(u)
    /\ \A u \in Pages : fetches[u] > 0 => SameHost(u)
    /\ \A l \in refused :
           /\ ~SameHost(l)
           /\ l \notin Range(internalLinks) \cup Range(currentBatch) \cup visitedUrls

\* A crawl has ended in which pages linked to a malformed URL and to a URL
\* of another host: both were refused, and every page of the site was
\* visited.
C28_Witness ==
    /\ cpc = "done"
    /\ refused = {ExtUrl, BadUrl}
    /\ visitedUrls = Pages
    /\ Range(internalLinks) \subseteq Pages /\ internalLinks # <<>>

\* The URLs in the order in which the crawler discovered them: the start
\* URL, then the internal links in the order they were first found.
DiscoveryOrder ==
    <<BaseUrl>> \o SelectSeq(internalLinks, LAMBDA u : u # BaseUrl)

\* Position of url in the discovery order.
DiscoveryIndex(url) ==
    CHOOSE n \in 1..Len(DiscoveryOrder) : DiscoveryOrder[n] = url

\* C30 (as claimed): pagesData lists the pages in discovery order: a page
\* whose URL was discovered earlier stands before a page whose URL was
\* discovered later, under every interleaving of the fetches of a batch.
C30_PagesInDiscoveryOrder ==
    \A i, j \in 1..Len(pagesData) :
        i < j => DiscoveryIndex(pagesData[i]) < DiscoveryIndex(pagesData[j])

\* C31 (as claimed): this.images is a set keyed by URL: the persisted image
\* list holds each image URL at most once, also when the same image was
\* found on two pages.
C31_ImageUrlAtMostOnce ==
    \A i, j \in 1..Len(images) :
        images[i].src = images[j].src => i = j

\* C36 (as claimed): when crawlSite has terminated, every visited URL is in
\* exactly one of pagesData and errors, so the number of visited URLs is the
\* number of page records plus the number of errors.
C36_VisitedInRecordsOrErrors ==
    Terminated =>
        /\ \A u \in visitedUrls : Count(pagesData, u) + Count(errors, u) = 1
        /\ Cardinality(visitedUrls) = Len(pagesData) + Len(errors)

CrawlNext ==
    \/ CrawlSiteBegin
    \/ \E u \in Pages : NewPageSettles(u)
    \/ \E u \in Pages : GotoSettles(u)
    \/ \E u \in Pages : ExtractDataSettles(u)
    \/ \E u \in Pages : ExtractLinksSettles(u)
    \/ \E u \in Pages : ExtractImagesSettles(u)
    \/ \E u \in Pages : CloseSettles(u)
    \/ HomepageSettles
    \/ BatchSettles
    \/ DelayElapses
    \/ ContextCloses

(***************************************************************************)
(* BULK IMAGE FETCHER  (ImageOptimizer)                                    *)
(***************************************************************************)
\* Strings the fetcher takes apart are sequences of one-character strings.
LowerLetters == {"a", "b", "c", "d", "e", "f", "g", "h", "i", "j", "k", "l", "m",
                 "n", "o", "p", "q", "r", "s", "t", "u", "v", "w", "x", "y", "z"}
Digits == {"0", "1", "2", "3", "4", "5", "6", "7", "8", "9"}

UpperLetters == <<"A", "B", "C", "D", "E", "F", "G", "H", "I", "J", "K", "L", "M",
                  "N", "O", "P", "Q", "R", "S", "T", "U", "V", "W", "X", "Y", "Z">>
LowerOfUpper == <<"a", "b", "c", "d", "e", "f", "g", "h", "i", "j", "k", "l", "m",
                  "n", "o", "p", "q", "r", "s", "t", "u", "v", "w", "x", "y", "z">>

\* String.prototype.toLowerCase, one character
LowerChar(c) ==
    IF \E i \in 1..Len(UpperLetters) : UpperLetters[i] = c
    THEN LowerOfUpper[CHOOSE i \in 1..Len(UpperLetters) : UpperLetters[i] = c]
    ELSE c

toLowerCase(s) == [i \in 1..Len(s) |-> LowerChar(s[i])]

\* Index of the last position of s holding c, 0 when there is none.
RECURSIVE LastIndexOf(_, _)
LastIndexOf(s, c) ==
    IF s = <<>> THEN 0
    ELSE IF s[Len(s)] = c THEN Len(s)
         ELSE LastIndexOf(SubSeq(s, 1, Len(s) - 1), c)

\* Trailing "/" characters removed.
RECURSIVE StripTrailingSlashes(_)
StripTrailingSlashes(s) ==
    IF s # <<>> /\ s[Len(s)] = "/"
    THEN StripTrailingSlashes(SubSeq(s, 1, Len(s) - 1))
    ELSE s

\* path.basename(p)
PathBasename(p) ==
    LET q == StripTrailingSlashes(p)
    IN  SubSeq(q, LastIndexOf(q, "/") + 1, Len(q))

\* path.extname(p): from the last "." of the basename, "" when the basename
\* has no "." or only a leading one.
PathExtname(p) ==
    LET b == PathBasename(p)
        k == LastIndexOf(b, ".")
    IN  IF k <= 1 THEN <<>> ELSE SubSeq(b, k, Len(b))

\* path.basename(p, ext)
PathBasenameExt(p, ext) ==
    LET b == PathBasename(p)
    IN  IF /\ ext # <<>>
           /\ Len(b) > Len(ext)
           /\ SubSeq(b, Len(b) - Len(ext) + 1, Len(b)) = ext
        THEN SubSeq(b, 1, Len(b) - Len(ext))
        ELSE b

\* .replace(/[^a-z0-9.-]/g, '-')
ReplaceUnsafe(s) ==
    [i \in 1..Len(s) |->
        IF s[i] \in LowerLetters \cup Digits \cup {".", "-"} THEN s[i] ELSE "-"]

\* .replace(/-+/g, '-')
RECURSIVE CollapseHyphens(_)
CollapseHyphens(s) ==
    IF Len(s) < 2 THEN s
    ELSE IF s[1] = "-" /\ s[2] = "-" THEN CollapseHyphens(Tail(s))
         ELSE <<s[1]>> \o CollapseHyphens(Tail(s))

\* .replace(/^-|-$/g, '')
TrimHyphen(s) ==
    LET a == IF s # <<>> /\ s[1] = "-" THEN Tail(s) ELSE s
    IN  IF a # <<>> /\ a[Len(a)] = "-" THEN SubSeq(a, 1, Len(a) - 1) ELSE a

\* createSafeFilename(pathname), with timestamp the value Date.now() gives
\* inside it: `${basename}-${timestamp}${ext}`.
createSafeFilename(pathname, timestamp) ==
    LET b        == PathBasename(pathname)
        withExt  == IF PathExtname(b) = <<>> THEN b \o <<".", "j", "p", "g">> ELSE b
        filename == TrimHyphen(CollapseHyphens(ReplaceUnsafe(toLowerCase(withExt))))
        ext      == PathExtname(filename)
    IN  [base |-> PathBasenameExt(filename, ext), stamp |-> timestamp, ext |-> ext]

\* The image entries a list may hold: kind is the shape of the src string,
\* path the pathname new URL(src) gives.
ImageEntries ==
    { [kind |-> "http", path |-> <<"/", "a", "/", "L", ".", "P", "N", "G">>],
      [kind |-> "http", path |-> <<"/", "b", "/", "l", ".", "p", "n", "g">>],
      [kind |-> "http", path |-> <<"/", "c", "/", "p", "_", "1">>],
      [kind |-> "data", path |-> <<>>],
      [kind |-> "empty", path |-> <<>>],
      [kind |-> "malformed", path |-> <<>>] }

\* this.outputDir (line 16), relative to the project root
FetcherOutputDir == <<"dist", "assets", "images">>

NoFile == [base |-> <<>>, stamp |-> 0, ext |-> <<>>]

NoManifest == [totalImages |-> -1, errors |-> <<>>, images |-> <<>>]

\* A new ImageOptimizer (lines 14-19) about to work on list, with an
\* empty output directory.
FetchStart(list) ==
    /\ now = 1
    /\ fpc = "init"
    /\ frun = 1
    /\ imageList = list
    /\ fbatchIdx = 0
    /\ ftask = [i \in 1..Len(list) |-> [pc |-> "idle", file |-> NoFile]]
    /\ files = [f \in {} |-> "complete"]
    /\ downloadedImages = <<>>
    /\ ferrors = <<>>
    /\ manifest = NoManifest
    /\ started = [i \in 1..Len(list) |-> 0]
    /\ fraised = {}
    /\ ffatal = FALSE
    /\ prevClean = FALSE

\* Entries processImage is done with in its synchronous head.
PadEntries == {e \in ImageEntries : e.kind # "http"}

\* Lists one entry longer than a batch: any entry first, any entry last (the
\* only member of the second batch), entries of one quick kind in between.
LongLists ==
    { [i \in 1..(FetchBatchSize + 1) |->
          IF i = 1 THEN x ELSE IF i = FetchBatchSize + 1 THEN y ELSE pad] :
      x \in ImageEntries, y \in ImageEntries, pad \in PadEntries }

\* The image lists looked at: every list of up to MaxImages entries, and the
\* two-batch lists.
ImageLists == SeqsUpTo(ImageEntries, MaxImages) \cup LongLists

FetchInit == \E list \in ImageLists : FetchStart(list)

\* Mutant of FetchBatch: the rest of the list is one batch.
FetchBatchUnbounded(i) ==
    {k \in 1..Len(imageList) : i < k}

\* Indexes of batch = images.slice(i, i + batchSize)            (line 38)
FetchBatch(i) ==
    {k \in 1..Len(imageList) : i < k /\ k <= i + FetchBatchSize}

\* Mutant of ProcessImageHead: a data: URL is not skipped; the request
\* for it throws.
ProcessImageHeadDataNotSkipped(k, stamp) ==
    LET e == imageList[k] IN
    IF e.kind = "empty"
    THEN [pc |-> "returned", file |-> NoFile]
    ELSE IF e.kind \in {"malformed", "data"}
         THEN [pc |-> "caught", file |-> NoFile]
         ELSE [pc |-> "access", file |-> createSafeFilename(e.path, stamp)]

\* The synchronous head of processImage (lines 56-69) for list index k when
\* Date.now() gives stamp: the position the call is left in.
ProcessImageHead(k, stamp) ==
    LET e == imageList[k] IN
    IF e.kind \in {"empty", "data"}
    THEN [pc |-> "returned", file |-> NoFile]
    ELSE IF e.kind = "malformed"
         THEN [pc |-> "caught", file |-> NoFile]
         ELSE [pc |-> "access", file |-> createSafeFilename(e.path, stamp)]

\* The members of the index set S in increasing order.
RECURSIVE Ascending(_)
Ascending(S) ==
    IF S = {} THEN <<>>
    ELSE LET m == CHOOSE k \in S : \A j \in S : k <= j
         IN  <<m>> \o Ascending(S \ {m})

\* batch.map(imageData => this.processImage(imageData)) at clock value t:
\* the heads run back to back; the clock may step between two of them,
\* after index split.  A head that returns or is caught settles at once.
LaunchFetch(i, split, t) ==
    LET heads == [k \in FetchBatch(i) |->
                    ProcessImageHead(k, IF k <= split THEN t ELSE t + 1)]
        thrown == {k \in FetchBatch(i) : heads[k].pc = "caught"}
    IN  /\ ftask' = [k \in 1..Len(imageList) |->
                        IF k \in FetchBatch(i)
                        THEN [heads[k] EXCEPT !.pc =
                                 IF @ \in {"returned", "caught"} THEN "settled" ELSE @]
                        ELSE ftask[k]]
        /\ ferrors' = ferrors \o Ascending(thrown)
        /\ fraised' = fraised \cup thrown
        /\ now' = IF \E k \in FetchBatch(i) : k > split THEN t + 1 ELSE t

\* Leave the for loop or start its next batch at clock value t
\* (lines 37-41, 48).
StartFetchBatch(i, t) ==
    IF i < Len(imageList)
    THEN /\ fpc' = "batch"
         /\ \E split \in {i + 1, i + FetchBatchSize} : LaunchFetch(i, split, t)
    ELSE /\ fpc' = "manifest"
         /\ now' = t
         /\ UNCHANGED <<ftask, ferrors, fraised>>

\* optimizeAllImages lines 27-41: read and parse the list, start batch 0.
FetchBegin ==
    /\ fpc = "init"
    /\ \/ /\ fbatchIdx' = 0
          /\ StartFetchBatch(0, now)
          /\ UNCHANGED ffatal
       \/ \* fs.readFile or JSON.parse throws
          /\ fpc' = "failed"
          /\ ffatal' = TRUE
          /\ UNCHANGED <<fbatchIdx, ftask, ferrors, fraised, now>>
    /\ UNCHANGED <<notFetch, prevClean>>
    /\ UNCHANGED <<frun, imageList, files, downloadedImages, manifest, started>>

\* Mutant of FetchCatch: the error is printed but not recorded.
FetchCatchPrintOnly(k) ==
    /\ UNCHANGED ferrors
    /\ fraised' = fraised \cup {k}
    /\ ftask' = [ftask EXCEPT ![k].pc = "settled"]

\* The catch block of processImage (lines 89-93).
FetchCatch(k) ==
    /\ ferrors' = Append(ferrors, k)
    /\ fraised' = fraised \cup {k}
    /\ ftask' = [ftask EXCEPT ![k].pc = "settled"]

\* await fs.access(outputPath) settles (lines 68-76): skip when the file is
\* there, else downloadImage sends the request.
AccessSettles(k) ==
    /\ ftask[k].pc = "access"
    /\ IF ftask[k].file \in DOMAIN files
       THEN /\ ftask' = [ftask EXCEPT ![k].pc = "settled"]
            /\ UNCHANGED started
       ELSE /\ ftask' = [ftask EXCEPT ![k].pc = "request"]
            /\ started' = [started EXCEPT ![k] = @ + 1]
    /\ UNCHANGED <<notFetch, prevClean>>
    /\ UNCHANGED <<now, fpc, frun, imageList, fbatchIdx, files,
                   downloadedImages, ferrors, manifest, fraised, ffatal>>

\* The response callback runs (lines 100-107), or the request fails or
\* times out before any response (lines 121-125).
ResponseArrives(k) ==
    /\ ftask[k].pc = "request"
    /\ \/ \* status 200: createWriteStream creates or truncates the file
          /\ files' = [f \in DOMAIN files \cup {ftask[k].file} |->
                          IF f = ftask[k].file THEN "partial" ELSE files[f]]
          /\ ftask' = [ftask EXCEPT ![k].pc = "transfer"]
          /\ UNCHANGED <<ferrors, fraised>>
       \/ \* another status, a request error, or the 30 s timeout
          /\ FetchCatch(k)
          /\ UNCHANGED files
    /\ UNCHANGED <<notFetch, prevClean>>
    /\ UNCHANGED <<now, fpc, frun, imageList, fbatchIdx, downloadedImages,
                   manifest, started, ffatal>>

\* The transfer ends (lines 109-125): the stream finishes, the stream
\* fails (the file is unlinked), or the request times out or errs.
TransferEnds(k) ==
    /\ ftask[k].pc = "transfer"
    /\ \/ \* 'finish': resolve, then downloadedImages.push (lines 78-85)
          /\ files' = [f \in DOMAIN files \cup {ftask[k].file} |->
                          IF f = ftask[k].file THEN "complete" ELSE files[f]]
          /\ downloadedImages' = Append(downloadedImages,
                                        [index |-> k, filename |-> ftask[k].file])
          /\ ftask' = [ftask EXCEPT ![k].pc = "settled"]
          /\ UNCHANGED <<ferrors, fraised>>
       \/ \* fileStream 'error': fs.unlink(outputPath), reject
          /\ files' = [f \in DOMAIN files \ {ftask[k].file} |-> files[f]]
          /\ FetchCatch(k)
          /\ UNCHANGED downloadedImages
       \/ \* request 'error' or timeout: reject, the file stays as it is
          /\ FetchCatch(k)
          /\ UNCHANGED <<files, downloadedImages>>
    /\ UNCHANGED <<notFetch, prevClean>>
    /\ UNCHANGED <<now, fpc, frun, imageList, fbatchIdx, manifest, started, ffatal>>

\* await Promise.allSettled(...) returns; the delay timer is armed (39-44).
FetchBatchSettles ==
    /\ fpc = "batch"
    /\ \A k \in FetchBatch(fbatchIdx) : ftask[k].pc = "settled"
    /\ fpc' = "delay"
    /\ UNCHANGED <<notFetch, prevClean>>
    /\ UNCHANGED <<now, frun, imageList, fbatchIdx, ftask, files,
                   downloadedImages, ferrors, manifest, started, fraised, ffatal>>

\* The 1000 ms timer fires (line 44): time has passed; next batch or line 48.
FetchDelayElapses ==
    /\ fpc = "delay"
    /\ fbatchIdx' = fbatchIdx + FetchBatchSize
    /\ StartFetchBatch(fbatchIdx', now + 1)
    /\ UNCHANGED <<notFetch, prevClean>>
    /\ UNCHANGED <<frun, imageList, files, downloadedImages, manifest, started, ffatal>>

\* Mutant of GenerateImageManifest: totalImages counts the entries of the list.
GenerateImageManifestCountsList ==
    /\ fpc = "manifest"
    /\ \/ /\ manifest' = [totalImages |-> Len(imageList),
                          errors |-> ferrors,
                          images |-> downloadedImages]
          /\ fpc' = "done"
          /\ UNCHANGED ffatal
       \/ /\ fpc' = "failed"
          /\ ffatal' = TRUE
          /\ UNCHANGED manifest
    /\ UNCHANGED <<notFetch, prevClean>>
    /\ UNCHANGED <<now, frun, imageList, fbatchIdx, ftask, files,
                   downloadedImages, ferrors, started, fraised>>

\* generateImageManifest (lines 152-168): the manifest is written.
GenerateImageManifest ==
    /\ fpc = "manifest"
    /\ \/ /\ manifest' = [totalImages |-> Len(downloadedImages),
                          errors |-> ferrors,
                          images |-> downloadedImages]
          /\ fpc' = "done"
          /\ UNCHANGED ffatal
       \/ \* fs.writeFile throws
          /\ fpc' = "failed"
          /\ ffatal' = TRUE
          /\ UNCHANGED manifest
    /\ UNCHANGED <<notFetch, prevClean>>
    /\ UNCHANGED <<now, frun, imageList, fbatchIdx, ftask, files,
                   downloadedImages, ferrors, started, fraised>>

\* The fetcher is run again over the same list: a new ImageOptimizer, the
\* output directory as the previous run left it.
FetchRunAgain ==
    /\ fpc \in {"done", "failed"}
    /\ frun < MaxRuns
    /\ frun' = frun + 1
    /\ fpc' = "init"
    /\ fbatchIdx' = 0
    /\ ftask' = [i \in 1..Len(imageList) |-> [pc |-> "idle", file |-> NoFile]]
    /\ downloadedImages' = <<>>
    /\ ferrors' = <<>>
    /\ started' = [i \in 1..Len(imageList) |-> 0]
    /\ fraised' = {}
    /\ ffatal' = FALSE
    /\ prevClean' = (fpc = "done" /\ ferrors = <<>>)
    /\ UNCHANGED notFetch
    /\ UNCHANGED <<now, imageList, files, manifest>>

(***************************************************************************)
(* Fetcher properties                                                      *)
(***************************************************************************)
\* Entries of downloadedImages recorded for destination file f.
EntriesFor(f) == {n \in 1..Len(downloadedImages) : downloadedImages[n].filename = f}

\* C6 (as claimed): when two entries of the list map to the same
\* destination file, at most one download is started for that file and at
\* most one entry is recorded for it, under every interleaving.
C6_OneDownloadPerDestination ==
    \A i, j \in 1..Len(imageList) :
        (/\ i < j /\ imageList[i] # imageList[j]
         /\ ftask[i].file # NoFile /\ ftask[i].file = ftask[j].file) =>
            /\ started[i] + started[j] <= 1
            /\ Cardinality(EntriesFor(ftask[i].file)) <= 1

\* C7 (as claimed): a run over the same list after a run that completed
\* without error, that run's files still present, starts no download.
C7_SecondRunDownloadsNothing ==
    prevClean => \A k \in 1..Len(imageList) : started[k] = 0

\* C17: every item whose processImage threw has exactly one entry in the
\* error list, no other item has one, and when the loop over the batches
\* has ended every item of every batch has been processed to its end.
C17_FailureIsolated ==
    /\ \A k \in 1..Len(imageList) : Count(ferrors, k) = (IF k \in fraised THEN 1 ELSE 0)
    /\ fpc \in {"manifest", "done"} =>
           \A k \in 1..Len(imageList) : ftask[k].pc = "settled"

\* A two-batch run has ended in which the download of the first item
\* failed and the only item of the second batch was downloaded.
C17_Witness ==
    /\ fpc = "done" /\ frun = 1
    /\ Len(imageList) = FetchBatchSize + 1
    /\ started[1] = 1 /\ 1 \in fraised
    /\ \E n \in 1..Len(downloadedImages) :
           downloadedImages[n].index = FetchBatchSize + 1

\* C18 (as claimed): once every download of a run has ended, no
\* partially written file is left in the output directory, and every
\* failed download has its entry in the error list.
C18_NoPartialFileLeft ==
    fpc \in {"manifest", "done"} =>
        /\ \A f \in DOMAIN files : files[f] # "partial"
        /\ \A k \in fraised : Count(ferrors, k) = 1

\* C19 (as claimed): the manifest written holds exactly one record for
\* every entry whose URL the fetcher attempted (every entry for which a
\* destination was computed), skipped and failed ones included.
C19_ManifestListsEveryAttempt ==
    fpc = "done" =>
        \A k \in 1..Len(imageList) :
            ftask[k].file # NoFile =>
                Cardinality({n \in 1..Len(manifest.images) :
                                manifest.images[n].index = k}) = 1

\* C27: an entry whose URL is empty or a data: URL has no effect: no
\* destination is computed and no download started for it, it has no
\* record in the downloaded list, the error list or the manifest, and a
\* list of such entries only leaves the output directory empty.
C27_EmptyAndDataUrlsSkipped ==
    /\ \A k \in 1..Len(imageList) :
           imageList[k].kind \in {"empty", "data"} =>
               /\ started[k] = 0
               /\ ftask[k].file = NoFile
               /\ ftask[k].pc \in {"idle", "settled"}
               /\ k \notin fraised
               /\ Count(ferrors, k) = 0
               /\ \A n \in 1..Len(downloadedImages) : downloadedImages[n].index # k
               /\ \A n \in 1..Len(manifest.images) : manifest.images[n].index # k
               /\ Count(manifest.errors, k) = 0
    /\ (\A k \in 1..Len(imageList) : imageList[k].kind \in {"empty", "data"}) =>
           /\ files = [f \in {} |-> "complete"]
           /\ downloadedImages = <<>> /\ ferrors = <<>>

\* A two-batch run has ended: the first entry was downloaded, the data:
\* URLs after it and the empty URL of the second batch left no trace.
C27_Witness ==
    /\ fpc = "done" /\ frun = 1
    /\ Len(imageList) = FetchBatchSize + 1
    /\ imageList[1].kind = "http"
    /\ imageList[2].kind = "data"
    /\ imageList[FetchBatchSize + 1].kind = "empty"
    /\ Len(downloadedImages) = 1 /\ downloadedImages[1].index = 1
    /\ ferrors = <<>>
    /\ Cardinality(DOMAIN files) = 1
    /\ manifest.totalImages = 1

\* Was list entry k skipped by processImage in this run: its src is empty or
\* a data: URL, or its destination file was found present.
FetchSkipped(k) ==
    \/ imageList[k].kind \in {"empty", "data"}
    \/ imageList[k].kind = "http" /\ ftask[k].pc = "settled" /\ started[k] = 0

\* C37: after optimizeAllImages, every entry that was not skipped is in
\* exactly one of downloadedImages and errors, and the manifest's
\* totalImages is the number of downloaded entries.
C37_DownloadedOrError ==
    fpc = "done" =>
        /\ \A k \in 1..Len(imageList) :
              ~FetchSkipped(k) =>
                  Cardinality({n \in 1..Len(downloadedImages) :
                                  downloadedImages[n].index = k})
                    + Count(ferrors, k) = 1
        /\ manifest.totalImages = Len(downloadedImages)
        /\ manifest.totalImages =
              Cardinality({k \in 1..Len(imageList) :
                              \E n \in 1..Len(downloadedImages) :
                                  downloadedImages[n].index = k})

\* A finished run over three kinds of entry: one downloaded, one whose
\* download failed after it had started, one skipped as a data: URL.
C37_Witness ==
    /\ fpc = "done"
    /\ Len(imageList) = FetchBatchSize + 1
    /\ imageList[2].kind = "data"
    /\ Len(downloadedImages) = 1 /\ downloadedImages[1].index = 1
    /\ ferrors = <<FetchBatchSize + 1>>
    /\ started[FetchBatchSize + 1] = 1
    /\ manifest.totalImages = 1

FetchNext ==
    \/ FetchBegin
    \/ \E k \in 1..Len(imageList) : AccessSettles(k)
    \/ \E k \in 1..Len(imageList) : ResponseArrives(k)
    \/ \E k \in 1..Len(imageList) : TransferEnds(k)
    \/ FetchBatchSettles
    \/ FetchDelayElapses
    \/ GenerateImageManifest
    \/ FetchRunAgain


(***************************************************************************)
(* MEDIA TRANSCODER  (optimize-article-images)                             *)
(***************************************************************************)
\* CONFIG.sizes (lines 18-23); width 0 stands for null (original size).
ConfigSizes ==
    << [width |-> 400,  suffix |-> <<"-", "s", "m">>],
       [width |-> 800,  suffix |-> <<"-", "m", "d">>],
       [width |-> 1200, suffix |-> <<"-", "l", "g">>],
       [width |-> 0,    suffix |-> <<>>] >>

\* OUTPUT_DIR (line 13), relative to the project root
TranscoderOutputDir == <<"public", "assets", "articles">>

\* CONFIG.skipIfNewer (line 25)
ConfigSkipIfNewer == TRUE

WebpExt == <<".", "w", "e", "b", "p">>
JpgExt == <<".", "j", "p", "g">>

\* The two passes of the loop body (lines 71-93 webp, 95-120 jpeg), numbered
\* 0..2*Len(sizes)-1 in the order the loop runs them.
NumVariants == 2 * Len(ConfigSizes)
VariantSize(v) == ConfigSizes[(v \div 2) + 1]
\* Mutant of VariantExt: the second pass writes the webp name again.
VariantExtWebpOnly(v) == WebpExt

VariantExt(v) == IF v % 2 = 0 THEN WebpExt ELSE JpgExt

\* webpName / jpegName (lines 65, 72, 96)
VariantName(filename, v) ==
    PathBasenameExt(filename, PathExtname(filename))
        \o VariantSize(v).suffix \o VariantExt(v)

\* ['.jpg', '.jpeg', '.png', '.webp'].includes(ext)  (lines 149-152)
IsImageName(filename) ==
    toLowerCase(PathExtname(filename)) \in
        { <<".", "j", "p", "g">>, <<".", "j", "p", "e", "g">>,
          <<".", "p", "n", "g">>, <<".", "w", "e", "b", "p">> }

\* Names a source directory may hold.
SourceNames ==
    { <<"a", ".", "j", "p", "g">>,
      <<"a", ".", "p", "n", "g">>,
      <<"a", "-", "s", "m", ".", "j", "p", "g">>,
      <<"b", ".", "P", "N", "G">>,
      <<"n", ".", "t", "x", "t">> }

\* The pixel width of the image a source file of that name holds: wider
\* than every size class, narrower than every size class, exactly the
\* middle one, exactly the largest one.
SourceWidth(name) ==
    CASE name = <<"a", ".", "j", "p", "g">> -> 1600
      [] name = <<"a", ".", "p", "n", "g">> -> 300
      [] name = <<"a", "-", "s", "m", ".", "j", "p", "g">> -> 800
      [] name = <<"b", ".", "P", "N", "G">> -> 1200
      [] OTHER -> 0

\* Mutant of ResizedWidth: resize without withoutEnlargement.
ResizedWidthEnlarging(sourceWidth, width) ==
    IF width = 0 THEN sourceWidth ELSE width

\* The width of what pipeline.resize(size.width, null, {withoutEnlargement:
\* true, fit: 'inside'}) gives (lines 79-84, 103-108): the source's width
\* when size.width is null or not smaller than it, size.width otherwise.
ResizedWidth(sourceWidth, width) ==
    IF width = 0 THEN sourceWidth
    ELSE IF sourceWidth <= width THEN sourceWidth
    ELSE width

\* Source directories: up to MaxSources entries with distinct names, each
\* last modified at time 0 or at time 1.
SourceTrees ==
    { s \in SeqsUpTo([name : SourceNames, mtime : 0..1], MaxSources) :
        \A i, j \in 1..Len(s) : i # j => s[i].name # s[j].name }

\* Mutant of shouldSkipOptimization: an output as old as the source is
\* taken for fresh too.
shouldSkipOptimizationOrEqual(sourceMtime, target) ==
    IF ~ConfigSkipIfNewer THEN FALSE
    ELSE target.there /\ target.mtime >= sourceMtime

\* shouldSkipOptimization(sourcePath, targetPath) (lines 46-53), given the
\* source's mtime and what stat finds at the target.
shouldSkipOptimization(sourceMtime, target) ==
    IF ~ConfigSkipIfNewer THEN FALSE
    ELSE target.there /\ target.mtime > sourceMtime

\* getFileModTime(targetPath) (lines 37-44) in output tree out
StatTarget(out, name) ==
    IF name \in DOMAIN out
    THEN [there |-> TRUE, mtime |-> out[name].mtime]
    ELSE [there |-> FALSE, mtime |-> 0]

\* The output tree with name written at time t with the given content.
WriteFile(out, name, t, content) ==
    [f \in DOMAIN out \cup {name} |->
        IF f = name THEN [mtime |-> t, content |-> content] ELSE out[f]]

\* The record of who wrote what, with source entry src having written path.
AddWriter(w, path, src) ==
    [f \in DOMAIN w \cup {path} |->
        IF f = path THEN (IF f \in DOMAIN w THEN w[f] ELSE {}) \cup {src} ELSE w[f]]

NoWriters == [f \in {} |-> {}]

NoTest == [act |-> "none", name |-> <<>>, source |-> 0,
           target |-> [there |-> FALSE, mtime |-> 0]]

TransStart(tree, sharp) ==
    /\ tpc = "init"
    /\ trun = 1
    /\ sharpOk = sharp
    /\ srcFiles = tree
    /\ tIdx = 1
    /\ vIdx = 0
    /\ outFiles = [f \in {} |-> [mtime |-> 0, content |-> "valid"]]
    /\ tclock = 1
    /\ twrites = {}
    /\ tfailed = {}
    /\ tlogged = {}
    /\ tfatal = FALSE
    /\ tpartial = {}
    /\ tquiet = TRUE
    /\ tlast = NoTest
    /\ twriters = NoWriters
    /\ tattempted = {}
    /\ temitted = {}

TransInit == \E tree \in SourceTrees, sharp \in BOOLEAN : TransStart(tree, sharp)

\* The transcoder at rest, while another component is looked at.
TransIdle == TransStart(<<>>, TRUE)

\* main and processDirectory lines 137-139: ensureDir and readdir.
TransBegin ==
    /\ tpc = "init"
    /\ \/ /\ tpc' = "walk"
          /\ UNCHANGED <<tfatal, tquiet>>
       \/ \* mkdir or readdir throws: main catches and exits with status 1
          /\ tpc' = "failed"
          /\ tfatal' = TRUE
          /\ tquiet' = FALSE
    /\ tIdx' = 1
    /\ vIdx' = 0
    /\ UNCHANGED notTrans
    /\ UNCHANGED <<trun, sharpOk, srcFiles, outFiles, tclock, twrites, tfailed,
                   tlogged, tpartial, tlast, twriters, tattempted, temitted>>

\* Mutant of Advance: an encoding error leaves the loop over the sizes.
AdvanceStoppingOnError ==
    IF tfailed' = tfailed /\ vIdx + 1 < NumVariants
    THEN /\ vIdx' = vIdx + 1
         /\ UNCHANGED tIdx
    ELSE /\ vIdx' = 0
         /\ tIdx' = tIdx + 1

\* Position after the current variant: the next one, or the next entry.
Advance ==
    IF vIdx + 1 < NumVariants
    THEN /\ vIdx' = vIdx + 1
         /\ UNCHANGED tIdx
    ELSE /\ vIdx' = 0
         /\ tIdx' = tIdx + 1

Current == srcFiles[tIdx]

\* One pass of optimizeWithSharp's loop body (lines 72-93 or 96-120): the
\* staleness test, then the encoding written straight to the output path.
ProcessVariant ==
    /\ tpc = "walk"
    /\ tIdx <= Len(srcFiles)
    /\ IsImageName(Current.name)
    /\ sharpOk
    /\ LET name == VariantName(Current.name, vIdx)
           seen == StatTarget(outFiles, name)
           test == [act |-> "none", name |-> name, source |-> Current.mtime,
                    target |-> seen]
       IN
       IF shouldSkipOptimization(Current.mtime, seen)
       THEN /\ tlast' = [test EXCEPT !.act = "skipped"]
            /\ UNCHANGED <<outFiles, twrites, twriters, tfailed, tlogged, tpartial, tquiet,
                           temitted>>
       ELSE \/ \* toFile resolves: the file is complete
               /\ outFiles' = WriteFile(outFiles, name, tclock, "valid")
               /\ temitted' = temitted \cup
                      {[source |-> tIdx, variant |-> vIdx, name |-> name,
                        width |-> ResizedWidth(SourceWidth(Current.name), VariantSize(vIdx).width)]}
               /\ twrites' = twrites \cup {name}
               /\ twriters' = AddWriter(twriters, name, Current.name)
               /\ tlast' = [test EXCEPT !.act = "written"]
               /\ UNCHANGED <<tfailed, tlogged, tpartial, tquiet>>
            \/ \* sharp throws before the output is opened: console.error
               /\ Cardinality(tfailed) < MaxEncodeFailures /\ name \notin tfailed
               /\ tfailed' = tfailed \cup {name}
               /\ tlogged' = tlogged \cup {name}
               /\ tquiet' = FALSE
               /\ tlast' = [test EXCEPT !.act = "failed"]
               /\ UNCHANGED <<outFiles, twrites, twriters, tpartial, temitted>>
            \/ \* toFile rejects part-way through writing: console.error
               /\ Cardinality(tfailed) < MaxEncodeFailures /\ name \notin tfailed
               /\ outFiles' = WriteFile(outFiles, name, tclock, "partial")
               /\ twrites' = twrites \cup {name}
               /\ twriters' = AddWriter(twriters, name, Current.name)
               /\ tfailed' = tfailed \cup {name}
               /\ tlogged' = tlogged \cup {name}
               /\ tpartial' = IF name \in DOMAIN outFiles /\ outFiles[name].content = "valid"
                              THEN tpartial \cup {name} ELSE tpartial
               /\ tquiet' = FALSE
               /\ tlast' = [test EXCEPT !.act = "failed"]
               /\ UNCHANGED temitted
    /\ tattempted' = tattempted \cup {<<tIdx, vIdx>>}
    /\ Advance
    /\ UNCHANGED notTrans
    /\ UNCHANGED <<tpc, trun, sharpOk, srcFiles, tclock, tfatal>>

\* Mutant of CopyImage: when import('sharp') fails the image is passed over.
CopyImageNothing ==
    /\ tpc = "walk"
    /\ tIdx <= Len(srcFiles)
    /\ IsImageName(Current.name)
    /\ ~sharpOk
    /\ tIdx' = tIdx + 1
    /\ UNCHANGED <<outFiles, twrites, twriters, tpc, tfatal, tquiet>>
    /\ UNCHANGED <<notTrans, tlast, tattempted, temitted>>
    /\ UNCHANGED <<trun, sharpOk, srcFiles, vIdx, tclock, tfailed, tlogged, tpartial>>

\* copyImageWithoutOptimization (lines 124-134), taken when import('sharp')
\* fails (lines 58-63).
CopyImage ==
    /\ tpc = "walk"
    /\ tIdx <= Len(srcFiles)
    /\ IsImageName(Current.name)
    /\ ~sharpOk
    /\ IF shouldSkipOptimization(Current.mtime, StatTarget(outFiles, Current.name))
       THEN /\ tIdx' = tIdx + 1
            /\ UNCHANGED <<outFiles, twrites, twriters, tpc, tfatal, tquiet>>
       ELSE \/ /\ outFiles' = WriteFile(outFiles, Current.name, tclock, "copy")
               /\ twrites' = twrites \cup {Current.name}
               /\ twriters' = AddWriter(twriters, Current.name, Current.name)
               /\ tIdx' = tIdx + 1
               /\ UNCHANGED <<tpc, tfatal, tquiet>>
            \/ \* copyFile throws: the error leaves processDirectory
               /\ tpc' = "failed"
               /\ tfatal' = TRUE
               /\ tquiet' = FALSE
               /\ UNCHANGED <<outFiles, twrites, twriters, tIdx>>
    /\ UNCHANGED <<notTrans, tlast, tattempted, temitted>>
    /\ UNCHANGED <<trun, sharpOk, srcFiles, vIdx, tclock, tfailed, tlogged, tpartial>>

\* A non-image file is copied as it is (lines 154-158).
CopyOther ==
    /\ tpc = "walk"
    /\ tIdx <= Len(srcFiles)
    /\ ~IsImageName(Current.name)
    /\ \/ /\ outFiles' = WriteFile(outFiles, Current.name, tclock, "copy")
          /\ twrites' = twrites \cup {Current.name}
          /\ twriters' = AddWriter(twriters, Current.name, Current.name)
          /\ tIdx' = tIdx + 1
          /\ UNCHANGED <<tpc, tfatal, tquiet>>
       \/ \* copyFile throws: the error leaves processDirectory
          /\ tpc' = "failed"
          /\ tfatal' = TRUE
          /\ tquiet' = FALSE
          /\ UNCHANGED <<outFiles, twrites, twriters, tIdx>>
    /\ UNCHANGED <<notTrans, tlast, tattempted, temitted>>
    /\ UNCHANGED <<trun, sharpOk, srcFiles, vIdx, tclock, tfailed, tlogged, tpartial>>

\* The for loop of processDirectory ends; main prints its tips (186-191).
TransFinish ==
    /\ tpc = "walk"
    /\ tIdx > Len(srcFiles)
    /\ tpc' = "done"
    /\ UNCHANGED <<notTrans, tlast, twriters, tattempted, temitted>>
    /\ UNCHANGED <<trun, sharpOk, srcFiles, tIdx, vIdx, outFiles, tclock, twrites,
                   tfailed, tlogged, tfatal, tpartial, tquiet>>

\* The transcoder is run again over the same source tree.
TransRunAgain ==
    /\ tpc \in {"done", "failed"}
    /\ trun < MaxRuns
    /\ trun' = trun + 1
    /\ tpc' = "init"
    /\ tIdx' = 1
    /\ vIdx' = 0
    /\ twrites' = {}
    /\ twriters' = NoWriters
    /\ tattempted' = {}
    /\ temitted' = {}
    /\ tfatal' = FALSE
    /\ UNCHANGED <<notTrans, tlast>>
    /\ UNCHANGED <<sharpOk, srcFiles, outFiles, tclock, tfailed, tlogged, tpartial, tquiet>>

\* Time passes (between two directory entries or two runs).
Tick ==
    /\ tclock < MaxClock
    /\ vIdx = 0
    /\ tclock' = tclock + 1
    /\ UNCHANGED <<notTrans, tlast, twriters, tattempted, temitted>>
    /\ UNCHANGED <<tpc, trun, sharpOk, srcFiles, tIdx, vIdx, outFiles, twrites,
                   tfailed, tlogged, tfatal, tpartial, tquiet>>

\* The author saves source file i again, between two directory entries or
\* two runs: its mtime becomes the clock's.
TouchSource(i) ==
    /\ srcFiles[i].mtime < tclock
    /\ vIdx = 0
    /\ srcFiles' = [srcFiles EXCEPT ![i].mtime = tclock]
    /\ tquiet' = FALSE
    /\ UNCHANGED <<notTrans, tlast, twriters, tattempted, temitted>>
    /\ UNCHANGED <<tpc, trun, sharpOk, tIdx, vIdx, outFiles, tclock, twrites,
                   tfailed, tlogged, tfatal, tpartial>>

(***************************************************************************)
(* Transcoder properties                                                   *)
(***************************************************************************)
\* C5 (as claimed): no item-level error is only swallowed or only printed:
\* every error thrown for a page, an image or a variant is in an output
\* error list or is the fatal error that ended the run.
C5_NoErrorDropped ==
    /\ \A u \in raised : u \in Range(errors) \/ u \in fatal
    /\ \A k \in fraised : k \in Range(ferrors) \/ ffatal
    /\ \A v \in tfailed : v \notin tlogged

\* C8 (as claimed): a variant is regenerated only when its output is
\* missing or older than the source (source mtime > output mtime), and is
\* skipped in every other case, equal modification times included.
C8_RegenerateOnlyIfOlder ==
    tlast.act # "none" =>
        ((tlast.act # "skipped") <=>
            (~tlast.target.there \/ tlast.source > tlast.target.mtime))

\* C8 (amended): a variant is regenerated exactly when its output is
\* missing or not newer than the source (source mtime >= output mtime); it
\* is skipped exactly when the output exists and is strictly newer.
C8_RegenerateUnlessNewer ==
    tlast.act # "none" =>
        ((tlast.act # "skipped") <=>
            (~tlast.target.there \/ tlast.source >= tlast.target.mtime))

\* An existing output exactly as old as its source has just been
\* regenerated.
C8_Witness ==
    /\ tlast.act = "written"
    /\ tlast.target.there
    /\ tlast.source = tlast.target.mtime
    /\ outFiles[tlast.name].content = "valid"

\* C9 (as claimed): a run after a complete, failure-free run over a source
\* tree that has not changed writes no file.
C9_SecondRunWritesNothing ==
    (trun >= 2 /\ tquiet) => twrites = {}

\* C10 (as claimed): a failed encoding never puts a partial file in the
\* place of a valid output, and no run skips a variant whose output file
\* is partial.
C10_NoPartialOutput ==
    /\ tpartial = {}
    /\ tlast.act = "skipped" => outFiles[tlast.name].content # "partial"

\* C11 (as claimed): within one run no output path is written by two
\* different source entries, and the fetcher and the transcoder write to
\* different places.
C11_DistinctWritePaths ==
    /\ \A f \in DOMAIN twriters : Cardinality(twriters[f]) <= 1
    /\ FetcherOutputDir # TranscoderOutputDir

\* C16: an encoding error changes neither the position of processDirectory
\* nor its outcome, and once the loop is past an image every one of its
\* size/format passes has run.
C16_VariantFailureDoesNotStop ==
    /\ [](\A i \in 1..Len(srcFiles) :
            (sharpOk /\ IsImageName(srcFiles[i].name) /\ tIdx > i) =>
                \A v \in 0..(NumVariants - 1) : <<i, v>> \in tattempted)
    /\ [][tfailed' # tfailed => (tpc' = "walk" /\ tfatal' = tfatal)]_vars

\* A run has ended normally in which an encoding of the first of two
\* images failed and all passes of both images ran.
C16_Witness ==
    /\ tpc = "done" /\ trun = 1 /\ sharpOk
    /\ Len(srcFiles) = 2
    /\ \A i \in 1..2 : IsImageName(srcFiles[i].name)
    /\ \E v \in 0..(NumVariants - 2) : VariantName(srcFiles[1].name, v) \in tfailed
    /\ Cardinality(tattempted) = 2 * NumVariants

\* The files sharp wrote completely for source entry i in this run.
EmittedFor(i) == {e \in temitted : e.source = i}

\* Source entry i is an image that a first run has gone past with no
\* encoding failed and no other entry writing one of its output names, so
\* that none of its passes was skipped or failed.
CleanlyEncoded(i) ==
    /\ sharpOk /\ trun = 1 /\ tfailed = {}
    /\ IsImageName(srcFiles[i].name)
    /\ tIdx > i
    /\ \A v \in 0..(NumVariants - 1) :
           LET name == VariantName(srcFiles[i].name, v)
           IN  name \in DOMAIN twriters /\ twriters[name] = {srcFiles[i].name}

\* The widest size class of CONFIG.sizes.
LargestSizeWidth ==
    CHOOSE w \in {ConfigSizes[k].width : k \in 1..Len(ConfigSizes)} :
        \A k \in 1..Len(ConfigSizes) : ConfigSizes[k].width <= w

C25_NeverWiderThanSource ==
    \A e \in temitted :
        LET class == VariantSize(e.variant).width
            s     == SourceWidth(srcFiles[e.source].name)
        IN  /\ e.width <= s
            /\ class # 0 => e.width <= class
            /\ s = 300 => e.width \notin {800, 1200}

\* The -md and -lg variants of a 300 pixel wide source and the -sm variant
\* of a 1600 pixel wide one have been written, 300, 300 and 400 pixels wide.
C25_Witness ==
    /\ \E e \in temitted :
           /\ SourceWidth(srcFiles[e.source].name) = 300
           /\ VariantSize(e.variant).width = 1200 /\ e.width = 300
    /\ \E e \in temitted :
           /\ SourceWidth(srcFiles[e.source].name) = 300
           /\ VariantSize(e.variant).width = 800 /\ e.width = 300
    /\ \E e \in temitted :
           /\ SourceWidth(srcFiles[e.source].name) = 1600
           /\ VariantSize(e.variant).width = 400 /\ e.width = 400

\* C26: without the codec no encoding is attempted or fails and no derived
\* variant is written: every file written is the unchanged copy of a
\* source entry under its own name, and every image the walk has gone past
\* has its copy in the output directory.
C26_CopyFallbackWithoutCodec ==
    ~sharpOk =>
        /\ temitted = {} /\ tattempted = {} /\ tfailed = {}
        /\ \A f \in DOMAIN outFiles :
               /\ \E i \in 1..Len(srcFiles) : srcFiles[i].name = f
               /\ outFiles[f].content = "copy"
        /\ tpc \in {"walk", "done"} =>
               \A i \in 1..Len(srcFiles) :
                   (IsImageName(srcFiles[i].name) /\ i < tIdx) =>
                       /\ srcFiles[i].name \in DOMAIN outFiles
                       /\ outFiles[srcFiles[i].name].content = "copy"

\* A first run without the codec has ended normally: both images of the
\* source directory were copied and nothing else is in the output directory.
C26_Witness ==
    /\ ~sharpOk /\ tpc = "done" /\ trun = 1 /\ ~tfatal
    /\ Len(srcFiles) = 2
    /\ \A i \in 1..2 : IsImageName(srcFiles[i].name)
    /\ DOMAIN outFiles = {srcFiles[1].name, srcFiles[2].name}
    /\ twrites = DOMAIN outFiles
    /\ \A f \in DOMAIN outFiles : outFiles[f].content = "copy"

TransNext ==
    \/ TransBegin
    \/ ProcessVariant
    \/ CopyImage
    \/ CopyOther
    \/ TransFinish
    \/ TransRunAgain
    \/ Tick
    \/ \E i \in 1..Len(srcFiles) : TouchSource(i)

(***************************************************************************)
(* CONTENT PROCESSOR  (process-content.js, ContentProcessor)               *)
(***************************************************************************)
\* Strings are sequences of one-character strings, as for the fetcher.

\* s begins with p / ends with p
StartsWith(s, p) == Len(p) <= Len(s) /\ SubSeq(s, 1, Len(p)) = p
EndsWith(s, p) == Len(p) <= Len(s) /\ SubSeq(s, Len(s) - Len(p) + 1, Len(s)) = p

\* String.prototype.indexOf: first position of sub in s, 0 when there is none
IndexOf(s, sub) ==
    LET at == {i \in 1..(Len(s) - Len(sub) + 1) : SubSeq(s, i, i + Len(sub) - 1) = sub}
    IN  IF at = {} THEN 0 ELSE CHOOSE i \in at : \A j \in at : i <= j

\* String.prototype.includes
Includes(s, sub) == IndexOf(s, sub) # 0

\* s.replace(sub, ''): the first occurrence of sub removed
RemoveFirst(s, sub) ==
    LET i == IndexOf(s, sub)
    IN  IF i = 0 THEN s
        ELSE SubSeq(s, 1, i - 1) \o SubSeq(s, i + Len(sub), Len(s))

\* Leading "/" characters removed.
RECURSIVE StripLeadingSlashes(_)
StripLeadingSlashes(s) ==
    IF s # <<>> /\ s[1] = "/" THEN StripLeadingSlashes(Tail(s)) ELSE s

AllDigits(s) == \A i \in 1..Len(s) : s[i] \in Digits

\* createSlug: const baseUrl (line 99)
SlugBaseUrl == <<"h", "t", "t", "p", "s", ":", "/", "/", "o", "b", "r", "a", "a", "b", "c", ".", "o", "r", "g">>

\* .replace(/[^a-z0-9-]/g, '-')  (line 106)
ReplaceNonSlug(s) ==
    [i \in 1..Len(s) |->
        IF s[i] \in LowerLetters \cup Digits \cup {"-"} THEN s[i] ELSE "-"]

\* Mutant of createSlug: the runs of hyphens are not collapsed.
createSlugNoCollapse(url) ==
    LET slug == StripLeadingSlashes(StripTrailingSlashes(RemoveFirst(url, SlugBaseUrl)))
    IN  IF slug = <<>> THEN <<"i", "n", "d", "e", "x">>
        ELSE TrimHyphen(ReplaceNonSlug(toLowerCase(slug)))

\* createSlug(url)  (lines 98-109)
createSlug(url) ==
    LET slug == StripLeadingSlashes(StripTrailingSlashes(RemoveFirst(url, SlugBaseUrl)))
    IN  IF slug = <<>> THEN <<"i", "n", "d", "e", "x">>
        ELSE TrimHyphen(CollapseHyphens(ReplaceNonSlug(toLowerCase(slug))))

\* isValidContentPage: assetExtensions (lines 116-122)
AssetExtensions ==
    { <<".", "j", "p", "g">>, <<".", "j", "p", "e", "g">>, <<".", "p", "n", "g">>, <<".", "g", "i", "f">>, <<".", "w", "e", "b", "p">>, <<".", "s", "v", "g">>, <<".", "i", "c", "o">>,
      <<".", "p", "d", "f">>, <<".", "d", "o", "c">>, <<".", "d", "o", "c", "x">>, <<".", "x", "l", "s">>, <<".", "x", "l", "s", "x">>, <<".", "p", "p", "t">>, <<".", "p", "p", "t", "x">>,
      <<".", "z", "i", "p">>, <<".", "r", "a", "r">>, <<".", "t", "a", "r">>, <<".", "g", "z">>,
      <<".", "m", "p", "3">>, <<".", "m", "p", "4">>, <<".", "a", "v", "i">>, <<".", "m", "o", "v">>, <<".", "w", "m", "v">>,
      <<".", "c", "s", "s">>, <<".", "j", "s">>, <<".", "x", "m", "l">>, <<".", "j", "s", "o", "n">> }

\* isValidContentPage: skipPatterns (lines 138-143)
SkipPatterns ==
    { <<"/", "f", "e", "e", "d", "/">>, <<"/", "r", "s", "s", "/">>, <<"/", "s", "i", "t", "e", "m", "a", "p">>, <<"/", "r", "o", "b", "o", "t", "s", ".", "t", "x", "t">>,
      <<"/", "w", "p", "-", "a", "d", "m", "i", "n", "/">>, <<"/", "w", "p", "-", "i", "n", "c", "l", "u", "d", "e", "s", "/">>, <<"/", "w", "p", "-", "c", "o", "n", "t", "e", "n", "t", "/", "p", "l", "u", "g", "i", "n", "s", "/">>,
      <<"/", "w", "p", "-", "j", "s", "o", "n", "/">>, <<"?", "r", "e", "s", "t", "_", "r", "o", "u", "t", "e", "=">>,
      <<"?", "p", "r", "e", "v", "i", "e", "w", "=">>, <<"?", "p", "=">>, <<"?", "a", "t", "t", "a", "c", "h", "m", "e", "n", "t", "_", "i", "d", "=">> }

\* /^\d+x\d+$/
MatchesDimensions(s) ==
    \E k \in 2..(Len(s) - 1) :
        /\ s[k] = "x"
        /\ AllDigits(SubSeq(s, 1, k - 1))
        /\ AllDigits(SubSeq(s, k + 1, Len(s)))

\* /\.(jpe?g|png|gif|pdf)$/i
MatchesFileExtension(s) ==
    \E e \in {<<".", "j", "p", "g">>, <<".", "j", "p", "e", "g">>, <<".", "p", "n", "g">>, <<".", "g", "i", "f">>, <<".", "p", "d", "f">>} : EndsWith(toLowerCase(s), e)

\* /^img_\d+/i
MatchesImgNumber(s) ==
    /\ StartsWith(toLowerCase(s), <<"i", "m", "g", "_">>)
    /\ Len(s) > 4 /\ s[5] \in Digits

\* /^imagem\d+$/i
MatchesImagemNumber(s) ==
    /\ StartsWith(toLowerCase(s), <<"i", "m", "a", "g", "e", "m">>)
    /\ Len(s) > 6 /\ AllDigits(SubSeq(s, 7, Len(s)))

\* assetTitlePatterns.some(pattern => pattern.test(...))  (lines 161-170)
MatchesAssetTitle(s) ==
    \/ MatchesDimensions(s)
    \/ MatchesFileExtension(s)
    \/ MatchesImgNumber(s)
    \/ MatchesImagemNumber(s)

\* isValidContentPage(pageData)  (lines 111-178).  The test of lines 155-158
\* requires hasAssetExtension, which has returned at line 126-129.
isValidContentPage(pageData) ==
    LET url   == toLowerCase(pageData.url)
        title == toLowerCase(pageData.title)
    IN  /\ ~(\E ext \in AssetExtensions : EndsWith(url, ext))
        /\ ~Includes(url, <<"/", "w", "p", "-", "c", "o", "n", "t", "e", "n", "t", "/", "u", "p", "l", "o", "a", "d", "s", "/">>)
        /\ ~(\E pattern \in SkipPatterns : Includes(url, pattern))
        /\ ~(MatchesAssetTitle(title) \/ MatchesAssetTitle(pageData.title))

\* Mutant of SkipReason: the media upload rule is tried before the asset
\* extension rule.
SkipReasonUploadsFirst(pageData) ==
    LET url   == toLowerCase(pageData.url)
        title == toLowerCase(pageData.title)
        hasAssetExtension == \E ext \in AssetExtensions : EndsWith(url, ext)
    IN  IF Includes(url, <<"/", "w", "p", "-", "c", "o", "n", "t", "e", "n", "t", "/", "u", "p", "l", "o", "a", "d", "s", "/">>) THEN "media upload"
        ELSE IF hasAssetExtension THEN "asset"
        ELSE IF \E pattern \in SkipPatterns : Includes(url, pattern) THEN "technical page"
        ELSE IF pageData.contentLength < 50 /\ hasAssetExtension THEN "minimal content"
        ELSE IF MatchesAssetTitle(title) \/ MatchesAssetTitle(pageData.title) THEN "asset-like title"
        ELSE "none"

\* The console.log of isValidContentPage (lines 127, 133, 147, 156, 173):
\* which "Skipping ..." line a page gets, "none" for a page that is kept.
SkipReason(pageData) ==
    LET url   == toLowerCase(pageData.url)
        title == toLowerCase(pageData.title)
        hasAssetExtension == \E ext \in AssetExtensions : EndsWith(url, ext)
    IN  IF hasAssetExtension THEN "asset"
        ELSE IF Includes(url, <<"/", "w", "p", "-", "c", "o", "n", "t", "e", "n", "t", "/", "u", "p", "l", "o", "a", "d", "s", "/">>) THEN "media upload"
        ELSE IF \E pattern \in SkipPatterns : Includes(url, pattern) THEN "technical page"
        ELSE IF pageData.contentLength < 50 /\ hasAssetExtension THEN "minimal content"
        ELSE IF MatchesAssetTitle(title) \/ MatchesAssetTitle(pageData.title) THEN "asset-like title"
        ELSE "none"

\* The lines printed while allPagesData.filter runs (lines 32-34), in order.
RECURSIVE SkipLines(_)
SkipLines(pages) ==
    IF pages = <<>> THEN <<>>
    ELSE LET reason == SkipReason(pages[1])
         IN  (IF reason = "none" THEN <<>>
              ELSE <<[url |-> pages[1].url, title |-> pages[1].title, reason |-> reason]>>)
             \o SkipLines(Tail(pages))

\* Mutant of determineContentType: the contact rule is tried first.
determineContentTypeContactFirst(pageData) ==
    LET url   == toLowerCase(pageData.url)
        title == toLowerCase(pageData.title)
    IN  IF \/ Includes(url, <<"/", "c", "o", "n", "t", "a", "t", "o">>) \/ Includes(url, <<"/", "c", "o", "n", "t", "a", "c", "t">>)
           \/ Includes(title, <<"c", "o", "n", "t", "a", "c", "t", "o">>)
        THEN "contact"
        ELSE IF \/ Includes(url, <<"/", "b", "l", "o", "g", "/">>) \/ Includes(url, <<"/", "n", "e", "w", "s", "/">>)
                \/ Includes(url, <<"/", "a", "r", "t", "i", "g", "o", "/">>) \/ Includes(url, <<"/", "p", "o", "s", "t", "/">>)
                \/ Includes(title, <<"a", "r", "t", "i", "g", "o">>)
        THEN "article"
        ELSE IF \/ Includes(url, <<"/", "s", "e", "r", "v", "i", "c", "o">>) \/ Includes(url, <<"/", "s", "e", "r", "v", "i", "c", "e">>)
                \/ Includes(title, <<"s", "e", "r", "v", "i">> \o <<"c-cedilla">> \o <<"o">>)
        THEN "service"
        ELSE IF \/ Includes(url, <<"/", "s", "o", "b", "r", "e">>) \/ Includes(url, <<"/", "a", "b", "o", "u", "t">>)
                \/ Includes(title, <<"s", "o", "b", "r", "e">>)
        THEN "about"
        ELSE IF \/ Includes(url, <<"/", "r", "e", "c", "u", "r", "s", "o">>) \/ Includes(url, <<"/", "r", "e", "s", "o", "u", "r", "c", "e">>)
                \/ Includes(url, <<"/", "d", "o", "c", "u", "m", "e", "n", "t", "o">>)
        THEN "resource"
        ELSE "page"

\* determineContentType(pageData)  (lines 180-211); the letter c with
\* cedilla is the one-character string "c-cedilla".
determineContentType(pageData) ==
    LET url   == toLowerCase(pageData.url)
        title == toLowerCase(pageData.title)
    IN  IF \/ Includes(url, <<"/", "b", "l", "o", "g", "/">>) \/ Includes(url, <<"/", "n", "e", "w", "s", "/">>)
           \/ Includes(url, <<"/", "a", "r", "t", "i", "g", "o", "/">>) \/ Includes(url, <<"/", "p", "o", "s", "t", "/">>)
           \/ Includes(title, <<"a", "r", "t", "i", "g", "o">>)
        THEN "article"
        ELSE IF \/ Includes(url, <<"/", "s", "e", "r", "v", "i", "c", "o">>) \/ Includes(url, <<"/", "s", "e", "r", "v", "i", "c", "e">>)
                \/ Includes(title, <<"s", "e", "r", "v", "i">> \o <<"c-cedilla">> \o <<"o">>)
        THEN "service"
        ELSE IF \/ Includes(url, <<"/", "s", "o", "b", "r", "e">>) \/ Includes(url, <<"/", "a", "b", "o", "u", "t">>)
                \/ Includes(title, <<"s", "o", "b", "r", "e">>)
        THEN "about"
        ELSE IF \/ Includes(url, <<"/", "c", "o", "n", "t", "a", "t", "o">>) \/ Includes(url, <<"/", "c", "o", "n", "t", "a", "c", "t">>)
                \/ Includes(title, <<"c", "o", "n", "t", "a", "c", "t", "o">>)
        THEN "contact"
        ELSE IF \/ Includes(url, <<"/", "r", "e", "c", "u", "r", "s", "o">>) \/ Includes(url, <<"/", "r", "e", "s", "o", "u", "r", "c", "e">>)
                \/ Includes(url, <<"/", "d", "o", "c", "u", "m", "e", "n", "t", "o">>)
        THEN "resource"
        ELSE "page"

\* processPage line 77-79: the path of the page's file below this.outputDir
ContentPath(pageData) ==
    [dir  |-> IF determineContentType(pageData) = "article" THEN "articles" ELSE "pages",
     slug |-> createSlug(pageData.url)]

\* URLs (what follows the origin) and titles of the pages of pages-data.json
PagePaths ==
    { <<>>, <<"/">>, <<"/", "s", "o", "b", "r", "e">>, <<"/", "s", "o", "b", "r", "e", "/">>, <<"/", "b", "l", "o", "g", "/", "c", "o", "n", "t", "a", "t", "o", "/">>, <<"/", "C", "o", "n", "t", "a", "t", "o">>,
      <<"/", "s", "e", "r", "v", "i", "c", "o", "s">>, <<"/", "r", "e", "c", "u", "r", "s", "o", "s">>, <<"/", "d", "o", "c", "s", "/", "a", ".", "p", "d", "f">>, <<"/", "f", "e", "e", "d", "/">>,
      <<"/", "a", "-", "_", "b">>, <<"/", "w", "p", "-", "c", "o", "n", "t", "e", "n", "t", "/", "u", "p", "l", "o", "a", "d", "s", "/", "f", ".", "P", "D", "F">>, <<"/", "S", "o", "b", "r", "e", "-", "N", "o-acute", "s", "/">>,
      <<"/", "#">> }

PageTitles == { <<>>, <<"A", "r", "t", "i", "g", "o">>, <<"I", "M", "G", "_", "1">> }

\* contentText.length (lines 151-153) of a page: no text, or 50 characters
PageContentLengths == {0, 50}

PageRecords ==
    [url : {SlugBaseUrl \o p : p \in PagePaths}, title : PageTitles,
     contentLength : PageContentLengths]

\* pages-data.json as the crawler writes it: at most one record per URL.
PagesDataFiles ==
    { l \in SeqsUpTo(PageRecords, MaxPagesData) :
        \A i, j \in 1..Len(l) : i # j => l[i].url # l[j].url }

NoContentFiles == [f \in {} |-> [page |-> 0, content |-> "complete"]]

\* A new ContentProcessor (lines 10-14) about to process file, with an empty
\* content directory.
ContentStart(file) ==
    /\ kpc = "init"
    /\ allPagesData = file
    /\ contentPages = <<>>
    /\ pageIdx = 1
    /\ contentFiles = NoContentFiles
    /\ processedPages = <<>>
    /\ redirects = <<>>
    /\ procWrites = [f \in {} |-> 0]
    /\ procTried = {}
    /\ procRaised = {}
    /\ procFatal = FALSE
    /\ skipLog = <<>>

ContentInit == \E file \in PagesDataFiles : ContentStart(file)

\* The content processor at rest, while another component is looked at.
ContentIdle == ContentStart(<<>>)

\* processAllContent lines 25-37: read pages-data.json and filter it.
ProcessAllContentBegin ==
    /\ kpc = "init"
    /\ \/ /\ contentPages' = SelectSeq(allPagesData, isValidContentPage)
          /\ skipLog' = SkipLines(allPagesData)
          /\ kpc' = "pages"
          /\ UNCHANGED procFatal
       \/ \* fs.readFile or JSON.parse throws
          /\ kpc' = "failed"
          /\ procFatal' = TRUE
          /\ UNCHANGED <<contentPages, skipLog>>
    /\ pageIdx' = 1
    /\ UNCHANGED notContent
    /\ UNCHANGED <<allPagesData, contentFiles, processedPages, redirects,
                   procWrites, procTried, procRaised>>

\* The content directory with path written for page i.
WriteContent(dirContent, path, i, content) ==
    [f \in DOMAIN dirContent \cup {path} |->
        IF f = path THEN [page |-> i, content |-> content] ELSE dirContent[f]]

\* Mutant of PageCatch: the error is thrown on to processAllContent.
PageCatchRethrow ==
    /\ procRaised' = procRaised \cup {pageIdx}
    /\ kpc' = "failed"
    /\ procFatal' = TRUE
    /\ UNCHANGED pageIdx

\* The catch block of processPage (lines 93-95): the error is printed; the
\* for loop of processAllContent goes on with the next page.
PageCatch ==
    /\ procRaised' = procRaised \cup {pageIdx}
    /\ pageIdx' = pageIdx + 1
    /\ UNCHANGED <<kpc, procFatal>>

\* One await this.processPage(pageData) of the for loop (lines 39-41, 53-96).
ProcessPage ==
    /\ kpc = "pages"
    /\ pageIdx <= Len(contentPages)
    /\ procTried' = procTried \cup {pageIdx}
    /\ LET pageData == contentPages[pageIdx]
           path     == ContentPath(pageData)
       IN  \/ \* the file is written and the page recorded (lines 81-89)
              /\ contentFiles' = WriteContent(contentFiles, path, pageIdx, "complete")
              /\ procWrites' = [f \in DOMAIN procWrites \cup {path} |->
                                   IF f = path
                                   THEN (IF f \in DOMAIN procWrites THEN procWrites[f] ELSE 0) + 1
                                   ELSE procWrites[f]]
              /\ processedPages' = Append(processedPages,
                                          [slug |-> path.slug,
                                           type |-> determineContentType(pageData),
                                           originalUrl |-> pageData.url,
                                           page |-> pageIdx])
              /\ pageIdx' = pageIdx + 1
              /\ UNCHANGED <<kpc, procFatal, procRaised>>
           \/ \* an error before the file is opened (lines 55-79)
              /\ PageCatch
              /\ UNCHANGED <<contentFiles, procWrites, processedPages>>
           \/ \* fs.writeFile rejects after it has opened the file (line 81)
              /\ PageCatch
              /\ contentFiles' = WriteContent(contentFiles, path, pageIdx, "partial")
              /\ UNCHANGED <<procWrites, processedPages>>
    /\ UNCHANGED notContent
    /\ UNCHANGED <<allPagesData, contentPages, redirects, skipLog>>

\* generateContentConfig (lines 44, 365-407): config.ts is written.
GenerateContentConfig ==
    /\ kpc = "pages"
    /\ pageIdx > Len(contentPages)
    /\ \/ /\ kpc' = "redirects"
          /\ UNCHANGED procFatal
       \/ \* fs.writeFile throws
          /\ kpc' = "failed"
          /\ procFatal' = TRUE
    /\ UNCHANGED notContent
    /\ UNCHANGED <<allPagesData, contentPages, pageIdx, contentFiles, processedPages,
                   redirects, procWrites, procTried, procRaised, skipLog>>

\* Mutant of GenerateRedirectsMapping: one record for every content page,
\* also for those whose processing failed.
GenerateRedirectsMappingAllPages ==
    /\ kpc = "redirects"
    /\ LET mapping == [n \in 1..Len(contentPages) |->
                          [from   |-> RemoveFirst(contentPages[n].url, SlugBaseUrl),
                           to     |-> <<"/">> \o createSlug(contentPages[n].url),
                           status |-> 301]]
       IN  \/ /\ redirects' = mapping
              /\ kpc' = "done"
              /\ UNCHANGED procFatal
           \/ \* the first fs.writeFile throws
              /\ kpc' = "failed"
              /\ procFatal' = TRUE
              /\ UNCHANGED redirects
           \/ \* the second fs.writeFile throws
              /\ redirects' = mapping
              /\ kpc' = "failed"
              /\ procFatal' = TRUE
    /\ UNCHANGED notContent
    /\ UNCHANGED <<allPagesData, contentPages, pageIdx, contentFiles, processedPages,
                   procWrites, procTried, procRaised, skipLog>>

\* generateRedirectsMapping (lines 47, 409-432): redirects.json, then
\* public/_redirects.
GenerateRedirectsMapping ==
    /\ kpc = "redirects"
    /\ LET mapping == [n \in 1..Len(processedPages) |->
                          [from   |-> RemoveFirst(processedPages[n].originalUrl, SlugBaseUrl),
                           to     |-> <<"/">> \o processedPages[n].slug,
                           status |-> 301]]
       IN  \/ /\ redirects' = mapping
              /\ kpc' = "done"
              /\ UNCHANGED procFatal
           \/ \* the first fs.writeFile throws
              /\ kpc' = "failed"
              /\ procFatal' = TRUE
              /\ UNCHANGED redirects
           \/ \* the second fs.writeFile throws
              /\ redirects' = mapping
              /\ kpc' = "failed"
              /\ procFatal' = TRUE
    /\ UNCHANGED notContent
    /\ UNCHANGED <<allPagesData, contentPages, pageIdx, contentFiles, processedPages,
                   procWrites, procTried, procRaised, skipLog>>

(***************************************************************************)
(* Content processor properties                                            *)
(***************************************************************************)
PagesLoopEnded == kpc \in {"redirects", "done"}

\* C12 (as claimed): within one run no content path is written twice, so
\* that after the loop over the pages the number of complete content files
\* is the number of pages processed.
C12_ContentFileWrittenOnce ==
    /\ \A f \in DOMAIN procWrites : procWrites[f] <= 1
    /\ PagesLoopEnded =>
           Cardinality({f \in DOMAIN contentFiles : contentFiles[f].content = "complete"})
               = Len(processedPages)

\* C15: a page whose processing raised an error has no processedPages entry
\* and no redirect; the error changes neither the position of the loop nor
\* the outcome of processAllContent, and once the loop has ended every
\* content page has been tried.
C15_PageErrorSkipsPage ==
    /\ [](/\ \A i \in procRaised :
                /\ \A n \in 1..Len(processedPages) : processedPages[n].page # i
                /\ \A n \in 1..Len(redirects) :
                       redirects[n].from # RemoveFirst(contentPages[i].url, SlugBaseUrl)
          /\ PagesLoopEnded => procTried = 1..Len(contentPages)
          /\ PagesLoopEnded =>
                Len(processedPages) = Len(contentPages) - Cardinality(procRaised))
    /\ [][procRaised' # procRaised =>
            (kpc' = "pages" /\ procFatal' = procFatal /\ pageIdx' = pageIdx + 1)]_vars

\* A run is done in which the first of two content pages raised an error
\* and the second was processed and got its redirect.
C15_Witness ==
    /\ kpc = "done"
    /\ Len(contentPages) = 2
    /\ procRaised = {1}
    /\ Len(processedPages) = 1 /\ processedPages[1].page = 2
    /\ Len(redirects) = 1

\* Which rule of determineContentType a page matches.
MatchesRule(category, pageData) ==
    LET url   == toLowerCase(pageData.url)
        title == toLowerCase(pageData.title)
    IN  CASE category = "article" ->
               \/ \E s \in {<<"/", "b", "l", "o", "g", "/">>, <<"/", "n", "e", "w", "s", "/">>, <<"/", "a", "r", "t", "i", "g", "o", "/">>, <<"/", "p", "o", "s", "t", "/">>} : Includes(url, s)
               \/ Includes(title, <<"a", "r", "t", "i", "g", "o">>)
          [] category = "service" ->
               \/ \E s \in {<<"/", "s", "e", "r", "v", "i", "c", "o">>, <<"/", "s", "e", "r", "v", "i", "c", "e">>} : Includes(url, s)
               \/ Includes(title, <<"s", "e", "r", "v", "i">> \o <<"c-cedilla">> \o <<"o">>)
          [] category = "about" ->
               \/ \E s \in {<<"/", "s", "o", "b", "r", "e">>, <<"/", "a", "b", "o", "u", "t">>} : Includes(url, s)
               \/ Includes(title, <<"s", "o", "b", "r", "e">>)
          [] category = "contact" ->
               \/ \E s \in {<<"/", "c", "o", "n", "t", "a", "t", "o">>, <<"/", "c", "o", "n", "t", "a", "c", "t">>} : Includes(url, s)
               \/ Includes(title, <<"c", "o", "n", "t", "a", "c", "t", "o">>)
          [] category = "resource" ->
               \E s \in {<<"/", "r", "e", "c", "u", "r", "s", "o">>, <<"/", "r", "e", "s", "o", "u", "r", "c", "e">>, <<"/", "d", "o", "c", "u", "m", "e", "n", "t", "o">>} : Includes(url, s)
          [] OTHER -> TRUE

RuleOrder == <<"article", "service", "about", "contact", "resource", "page">>

\* C20: the category recorded for a page is the first one in the order
\* article, service, about, contact, resource, page whose rule the page
\* matches; a URL with both "/blog/" and "/contato/" is an article.
C20_FirstMatchingCategory ==
    \A n \in 1..Len(processedPages) :
        LET pageData == contentPages[processedPages[n].page]
            first    == CHOOSE k \in 1..Len(RuleOrder) :
                            /\ MatchesRule(RuleOrder[k], pageData)
                            /\ \A j \in 1..(k - 1) : ~MatchesRule(RuleOrder[j], pageData)
        IN  /\ processedPages[n].type = RuleOrder[first]
            /\ (Includes(pageData.url, <<"/", "b", "l", "o", "g", "/">>) /\ Includes(pageData.url, <<"/", "c", "o", "n", "t", "a", "t", "o", "/">>))
                   => processedPages[n].type = "article"

\* A page whose URL holds both "/blog/" and "/contato/" has been processed
\* as an article, and another page as a contact page.
C20_Witness ==
    /\ \E n \in 1..Len(processedPages) :
           /\ Includes(processedPages[n].originalUrl, <<"/", "b", "l", "o", "g", "/", "c", "o", "n", "t", "a", "t", "o", "/">>)
           /\ processedPages[n].type = "article"
    /\ \E n \in 1..Len(processedPages) : processedPages[n].type = "contact"

\* The derivation of a slug as the specification words it: the base URL and
\* the slashes at both ends stripped, "index" when nothing remains,
\* otherwise lower case, every maximal run of characters outside [a-z0-9-]
\* replaced by one hyphen, hyphens at both ends trimmed.
SlugChars == LowerLetters \cup Digits \cup {"-"}

StripBase(url) ==
    IF StartsWith(url, SlugBaseUrl) THEN SubSeq(url, Len(SlugBaseUrl) + 1, Len(url)) ELSE url

RECURSIVE DropRun(_)
DropRun(s) == IF s # <<>> /\ s[1] \notin SlugChars THEN DropRun(Tail(s)) ELSE s

RECURSIVE RunsToHyphen(_)
RunsToHyphen(s) ==
    IF s = <<>> THEN <<>>
    ELSE IF s[1] \in SlugChars THEN <<s[1]>> \o RunsToHyphen(Tail(s))
         ELSE <<"-">> \o RunsToHyphen(DropRun(s))

RECURSIVE TrimHyphens(_)
TrimHyphens(s) ==
    IF s # <<>> /\ s[1] = "-" THEN TrimHyphens(Tail(s))
    ELSE IF s # <<>> /\ s[Len(s)] = "-" THEN TrimHyphens(SubSeq(s, 1, Len(s) - 1))
         ELSE s

SlugAsWorded(url) ==
    LET rest == StripLeadingSlashes(StripTrailingSlashes(StripBase(url)))
    IN  IF rest = <<>> THEN <<"i", "n", "d", "e", "x">>
        ELSE TrimHyphens(RunsToHyphen(toLowerCase(rest)))

\* The same derivation with the runs taken over the characters outside
\* [a-z0-9], a hyphen of the URL counting as part of a run: one scan that
\* emits a single hyphen between two stretches of letters and digits.
RECURSIVE ScanSlug(_, _, _)
ScanSlug(s, out, pending) ==
    IF s = <<>> THEN out
    ELSE IF s[1] \in LowerLetters \cup Digits
         THEN ScanSlug(Tail(s),
                       out \o (IF pending /\ out # <<>> THEN <<"-">> ELSE <<>>) \o <<s[1]>>,
                       FALSE)
         ELSE ScanSlug(Tail(s), out, TRUE)

SlugCollapsed(url) ==
    LET rest == StripLeadingSlashes(StripTrailingSlashes(StripBase(url)))
    IN  IF rest = <<>> THEN <<"i", "n", "d", "e", "x">>
        ELSE ScanSlug(toLowerCase(rest), <<>>, FALSE)

WellFormedSlug(slug) ==
    /\ \A i \in 1..Len(slug) : slug[i] \in SlugChars
    /\ \A i \in 1..(Len(slug) - 1) : ~(slug[i] = "-" /\ slug[i + 1] = "-")
    /\ slug # <<>> => (slug[1] # "-" /\ slug[Len(slug)] # "-")

\* C21 (as claimed): the slug recorded for a page is the one the worded
\* derivation gives for its URL (every run of characters outside [a-z0-9-]
\* replaced by one hyphen), and it is well formed.
C21_SlugIsWordedDerivation ==
    \A n \in 1..Len(processedPages) :
        /\ processedPages[n].slug = SlugAsWorded(processedPages[n].originalUrl)
        /\ WellFormedSlug(processedPages[n].slug)

\* C21 (amended): the slug recorded for a page depends on its URL only and
\* is "index" when nothing but the base URL and slashes is in it, otherwise
\* the lower-cased rest with every character outside [a-z0-9-] replaced by a
\* hyphen, every run of hyphens (those of the URL included) collapsed to
\* one and the hyphen at either end removed; it holds only [a-z0-9-], no
\* two adjacent hyphens and no hyphen at either end.
C21_SlugIsCollapsedDerivation ==
    \A n \in 1..Len(processedPages) :
        /\ processedPages[n].slug = SlugCollapsed(processedPages[n].originalUrl)
        /\ WellFormedSlug(processedPages[n].slug)
        /\ processedPages[n].originalUrl \in {SlugBaseUrl, SlugBaseUrl \o <<"/">>}
               => processedPages[n].slug = <<"i", "n", "d", "e", "x">>

\* Two pages have been processed: one whose URL has a hyphen next to an
\* underscore and whose slug has a single hyphen there, and the home page
\* with the slug "index".
C21_Witness ==
    /\ \E n \in 1..Len(processedPages) :
           /\ processedPages[n].originalUrl = SlugBaseUrl \o <<"/", "a", "-", "_", "b">>
           /\ processedPages[n].slug = <<"a", "-", "b">>
    /\ \E n \in 1..Len(processedPages) :
           /\ processedPages[n].originalUrl = SlugBaseUrl \o <<"/">>
           /\ processedPages[n].slug = <<"i", "n", "d", "e", "x">>

\* C22: a page whose lower-cased URL ends with an asset extension is not
\* among the content pages, whatever its title and content length are, and
\* the one line printed for it is the asset line, also when its URL matches
\* the media upload rule as well.
C22_AssetExtensionExcludedFirst ==
    kpc # "init" /\ ~procFatal =>
        \A i \in 1..Len(allPagesData) :
            LET url == toLowerCase(allPagesData[i].url)
            IN  (\E ext \in AssetExtensions : EndsWith(url, ext)) =>
                    /\ \A n \in 1..Len(contentPages) : contentPages[n].url # allPagesData[i].url
                    /\ \A n \in 1..Len(processedPages) :
                           processedPages[n].originalUrl # allPagesData[i].url
                    /\ Cardinality({k \in 1..Len(skipLog) : skipLog[k].url = allPagesData[i].url}) = 1
                    /\ \A k \in 1..Len(skipLog) :
                           skipLog[k].url = allPagesData[i].url => skipLog[k].reason = "asset"

\* The pages were filtered: a .pdf page with an ordinary title and 50
\* characters of text, and an upper-case .PDF below /wp-content/uploads/,
\* were both skipped as assets.
C22_Witness ==
    /\ kpc = "done"
    /\ Len(allPagesData) = 2
    /\ allPagesData[1].url = SlugBaseUrl \o <<"/", "d", "o", "c", "s", "/", "a", ".", "p", "d", "f">>
    /\ allPagesData[1].title = <<"A", "r", "t", "i", "g", "o">>
    /\ allPagesData[1].contentLength = 50
    /\ allPagesData[2].url = SlugBaseUrl \o <<"/", "w", "p", "-", "c", "o", "n", "t", "e", "n", "t", "/", "u", "p", "l", "o", "a", "d", "s", "/", "f", ".", "P", "D", "F">>
    /\ contentPages = <<>>
    /\ Len(skipLog) = 2 /\ skipLog[1].reason = "asset" /\ skipLog[2].reason = "asset"

\* C23: once processAllContent has returned, the redirect mapping has one
\* record for each content page whose processing raised no error, in the
\* order in which the pages were processed, each with from the page's URL
\* without the base URL, to "/" followed by the page's slug and status 301;
\* no record has the URL of an excluded page or of a page that failed.
C23_RedirectPerProcessedPage ==
    kpc = "done" =>
        LET ok == {i \in 1..Len(contentPages) : i \notin procRaised}
        IN  /\ Len(redirects) = Cardinality(ok)
            /\ Len(redirects) = Len(processedPages)
            /\ \A n \in 1..Len(redirects) :
                   LET i == processedPages[n].page
                   IN  /\ i \in ok
                       /\ \A m \in 1..(n - 1) : processedPages[m].page < i
                       /\ redirects[n] = [from   |-> StripBase(contentPages[i].url),
                                          to     |-> <<"/">> \o SlugCollapsed(contentPages[i].url),
                                          status |-> 301]
            /\ \A j \in 1..Len(allPagesData) :
                   (\/ SkipReason(allPagesData[j]) # "none"
                    \/ \E i \in procRaised : contentPages[i].url = allPagesData[j].url)
                       => \A n \in 1..Len(redirects) :
                              redirects[n].from # StripBase(allPagesData[j].url)

\* processAllContent has returned after processing the home page and then
\* a second page; the mapping holds their two records in that order.
C23_Witness ==
    /\ kpc = "done"
    /\ redirects = << [from |-> <<>>, to |-> <<"/", "i", "n", "d", "e", "x">>, status |-> 301],
                      [from |-> <<"/", "a", "-", "_", "b">>, to |-> <<"/", "a", "-", "b">>, status |-> 301] >>

\* C38 (as claimed): createSlug never returns the empty string: no processed
\* page has the empty slug, no content file is named ".md", and no redirect
\* has the target "/".
C38_SlugNeverEmpty ==
    /\ \A n \in 1..Len(processedPages) : processedPages[n].slug # <<>>
    /\ \A f \in DOMAIN contentFiles : f.slug # <<>>
    /\ \A n \in 1..Len(redirects) : redirects[n].to # <<"/">>

ContentNext ==
    \/ ProcessAllContentBegin
    \/ ProcessPage
    \/ GenerateContentConfig
    \/ GenerateRedirectsMapping

(***************************************************************************)
(* MIGRATION ORCHESTRATOR  (scripts/migrate.js, runFullMigration)          *)
(***************************************************************************)
\* Each awaited call of runFullMigration is one step; what the call does
\* inside is the subject of the component's own specification, here it
\* completes or throws and leaves its files.

\* The stages, in the order of the source (lines 22, 32, 40, 48)
StageOrder == <<"crawl", "process", "images", "summary">>

\* The awaited calls of the try block (lines 26-49), each with its stage.
MigrationSteps ==
    << [call |-> "crawler.initialize",            stage |-> "crawl"],
       [call |-> "crawler.crawlSite",             stage |-> "crawl"],
       [call |-> "crawler.saveResults",           stage |-> "crawl"],
       [call |-> "crawler.cleanup",               stage |-> "crawl"],
       [call |-> "processor.initialize",          stage |-> "process"],
       [call |-> "processor.processAllContent",   stage |-> "process"],
       [call |-> "optimizer.initialize",          stage |-> "images"],
       [call |-> "optimizer.optimizeAllImages",   stage |-> "images"],
       [call |-> "this.generateSummaryReport",    stage |-> "summary"] >>

\* ObraABCSiteCrawler: this.outputDir (crawl-site.js line 18), and
\* ImageOptimizer: default crawledDataDir (optimize-images.js line 14), both
\* relative to the project root
CrawlerOutputDir == <<"crawled-data">>
FetcherCrawledDataDir == <<"src", "assets", "images">>

\* An images-list.json with its contents; NoList when there is no such file.
ImageUrlLists == SeqsUpTo(ImgUrls, MaxImages)
ListFiles == [there : {TRUE}, list : ImageUrlLists]
NoList == [there |-> FALSE, list |-> <<>>]
NotLoaded == [tried |-> FALSE, there |-> FALSE, list |-> <<>>]

MigrateStart(disk) ==
    /\ mpc = 1
    /\ mexit = "running"
    /\ mstarted = <<>>
    /\ mcompleted = <<>>
    /\ mfailed = {}
    /\ mthrew = "none"
    /\ diskLists = disk
    /\ crawlImages = <<>>
    /\ mloaded = NotLoaded
    /\ mbrowser = "none"

\* The project directory before the run: at each of the two places an
\* images-list.json of an earlier run, or none.
MigrateInit ==
    \E disk \in [{CrawlerOutputDir, FetcherCrawledDataDir} -> ListFiles \cup {NoList}] :
        MigrateStart(disk)

\* The orchestrator at rest, while another component is looked at.
MigrateIdle ==
    MigrateStart([d \in {CrawlerOutputDir, FetcherCrawledDataDir} |-> NoList])

\* Is step k the first (the last) awaited call of its stage
FirstOfStage(k) == k = 1 \/ MigrationSteps[k - 1].stage # MigrationSteps[k].stage
LastOfStage(k) ==
    k = Len(MigrationSteps) \/ MigrationSteps[k + 1].stage # MigrationSteps[k].stage

\* Control reaches awaited call k: the banner of its stage is printed when
\* it is the stage's first call (lines 23, 33, 41).
Enter(k) ==
    mstarted' = IF FirstOfStage(k) /\ MigrationSteps[k].stage \notin Range(mstarted)
                THEN Append(mstarted, MigrationSteps[k].stage)
                ELSE mstarted

\* Awaited call k returns: on to the next line.
Return(k) ==
    /\ Enter(k)
    /\ mpc' = k + 1
    /\ mcompleted' = IF LastOfStage(k) THEN Append(mcompleted, MigrationSteps[k].stage)
                     ELSE mcompleted
    /\ UNCHANGED <<mexit, mthrew>>

\* Mutant of MigrateCatch: the error is printed and the run goes on.
MigrateCatchGoOn(k) ==
    /\ Enter(k)
    /\ mthrew' = MigrationSteps[k].stage
    /\ mfailed' = mfailed \cup {MigrationSteps[k].stage}
    /\ mpc' = k + 1
    /\ UNCHANGED <<mexit, mcompleted>>

\* Awaited call k throws: the catch block of runFullMigration (lines 58-61)
\* prints the error and calls process.exit(1).
MigrateCatch(k) ==
    /\ Enter(k)
    /\ mthrew' = MigrationSteps[k].stage
    /\ mfailed' = mfailed \cup {MigrationSteps[k].stage}
    /\ mexit' = "1"
    /\ mpc' = 0
    /\ UNCHANGED mcompleted

\* An awaited call that leaves no file the later stages read.
PlainStep(k) ==
    /\ \/ Return(k) /\ UNCHANGED mfailed
       \/ MigrateCatch(k)
    /\ UNCHANGED <<diskLists, crawlImages, mloaded>>

\* await crawler.initialize()  (line 26; crawl-site.js lines 21-31): the
\* browser is launched by the last awaited call of initialize; when a mkdir
\* or the launch throws there is no browser.
CrawlerInitialize ==
    /\ mpc = 1
    /\ \/ /\ Return(1)
          /\ mbrowser' = "open"
          /\ UNCHANGED mfailed
       \/ /\ MigrateCatch(1)
          /\ UNCHANGED mbrowser
    /\ UNCHANGED <<diskLists, crawlImages, mloaded>>
    /\ UNCHANGED notMigrate

\* await crawler.crawlSite()  (line 27): the crawl ends with some images in
\* this.images, or throws.
CrawlerCrawlSite ==
    /\ mpc = 2
    /\ \/ /\ Return(2)
          /\ crawlImages' \in ImageUrlLists
          /\ UNCHANGED mfailed
       \/ /\ MigrateCatch(2)
          /\ UNCHANGED crawlImages
    /\ UNCHANGED <<diskLists, mloaded>>
    /\ UNCHANGED mbrowser
    /\ UNCHANGED notMigrate

\* await crawler.saveResults()  (line 28; crawl-site.js lines 222-270):
\* images-list.json is written into this.outputDir; a write before it or
\* after it may throw.
CrawlerSaveResults ==
    /\ mpc = 3
    /\ \/ /\ Return(3)
          /\ diskLists' = [diskLists EXCEPT ![CrawlerOutputDir] =
                                        [there |-> TRUE, list |-> crawlImages]]
          /\ UNCHANGED mfailed
       \/ /\ MigrateCatch(3)
          /\ \/ UNCHANGED diskLists
             \/ diskLists' = [diskLists EXCEPT ![CrawlerOutputDir] =
                                        [there |-> TRUE, list |-> crawlImages]]
    /\ UNCHANGED <<crawlImages, mloaded>>
    /\ UNCHANGED mbrowser
    /\ UNCHANGED notMigrate

\* await crawler.cleanup()  (line 29; crawl-site.js lines 338-343):
\* this.browser.close() closes the browser, or throws.
CrawlerCleanup ==
    /\ mpc = 4
    /\ \/ /\ Return(4)
          /\ mbrowser' = IF mbrowser = "open" THEN "closed" ELSE mbrowser
          /\ UNCHANGED mfailed
       \/ /\ MigrateCatch(4)
          /\ UNCHANGED mbrowser
    /\ UNCHANGED <<diskLists, crawlImages, mloaded>>
    /\ UNCHANGED notMigrate

\* await processor.initialize()  (line 36)
ProcessorInitialize ==
    /\ mpc = 5
    /\ PlainStep(5)
    /\ UNCHANGED mbrowser
    /\ UNCHANGED notMigrate

\* await processor.processAllContent()  (line 37)
ProcessorProcessAllContent ==
    /\ mpc = 6
    /\ PlainStep(6)
    /\ UNCHANGED mbrowser
    /\ UNCHANGED notMigrate

\* await optimizer.initialize()  (line 44)
OptimizerInitialize ==
    /\ mpc = 7
    /\ PlainStep(7)
    /\ UNCHANGED mbrowser
    /\ UNCHANGED notMigrate

\* await optimizer.optimizeAllImages()  (line 45; optimize-images.js lines
\* 26-53): the list is read from this.crawledDataDir; readFile throws when
\* there is no such file, and a later step of the call may throw too.
OptimizerOptimizeAllImages ==
    /\ mpc = 8
    /\ LET found == diskLists[FetcherCrawledDataDir] IN
       IF ~found.there
       THEN /\ MigrateCatch(8)
            /\ mloaded' = [tried |-> TRUE, there |-> FALSE, list |-> <<>>]
       ELSE /\ mloaded' = [tried |-> TRUE, there |-> TRUE, list |-> found.list]
            /\ \/ Return(8) /\ UNCHANGED mfailed
               \/ MigrateCatch(8)
    /\ UNCHANGED <<diskLists, crawlImages>>
    /\ UNCHANGED mbrowser
    /\ UNCHANGED notMigrate

\* await this.generateSummaryReport()  (lines 49, 64-123): an error inside
\* is caught there and printed as a warning; the call always returns.
GenerateSummaryReport ==
    /\ mpc = 9
    /\ Return(9)
    /\ \/ UNCHANGED mfailed
       \/ mfailed' = mfailed \cup {"summary"}
    /\ UNCHANGED <<diskLists, crawlImages, mloaded>>
    /\ UNCHANGED mbrowser
    /\ UNCHANGED notMigrate

\* Lines 51-56: the success message; main returns and the process ends
\* with status 0.
MigrationCompletes ==
    /\ mpc = Len(MigrationSteps) + 1
    /\ mexit' = "0"
    /\ mpc' = 0
    /\ UNCHANGED <<mstarted, mcompleted, mfailed, mthrew, diskLists, crawlImages, mloaded>>
    /\ UNCHANGED mbrowser
    /\ UNCHANGED notMigrate

(***************************************************************************)
(* Orchestrator properties                                                 *)
(***************************************************************************)
IsPrefix(s, t) == Len(s) <= Len(t) /\ SubSeq(t, 1, Len(s)) = s

\* The stages start in the order of StageOrder, each after the one before
\* it has completed.
StagesInOrder ==
    /\ IsPrefix(mstarted, StageOrder)
    /\ IsPrefix(mcompleted, mstarted)
    /\ Len(mstarted) <= Len(mcompleted) + 1

\* After a failure of stage s the run has ended with status 1 and s is the
\* last stage started.
FatalFailure(s) ==
    /\ mexit = "1"
    /\ mstarted # <<>> /\ mstarted[Len(mstarted)] = s
    /\ s \notin Range(mcompleted)

C14_FetcherReadsCrawlersList ==
    mloaded.tried => (mloaded.there /\ mloaded.list = crawlImages)

\* C39 (as claimed, the browser in the full migration): on every exit path
\* of the run, whether the crawl calls succeed or one of them throws, the
\* browser launched by initialize has been closed when the process ends.
C39_BrowserClosedOnEveryExit ==
    mexit # "running" => mbrowser # "open"

MigrateNext ==
    \/ CrawlerInitialize
    \/ CrawlerCrawlSite
    \/ CrawlerSaveResults
    \/ CrawlerCleanup
    \/ ProcessorInitialize
    \/ ProcessorProcessAllContent
    \/ OptimizerInitialize
    \/ OptimizerOptimizeAllImages
    \/ GenerateSummaryReport
    \/ MigrationCompletes

(***************************************************************************)
(* IMAGE WATCHER  (scripts/watch-images.js)                                *)
(***************************************************************************)
\* The filename of an event that carries none (filename is null).
NoFilename == <<>>

\* Filenames of the events fs.watch delivers.
WatchedNames ==
    { <<"a", ".", "j", "p", "g">>, <<"d", "/", "b", ".", "W", "E", "B", "P">>, <<"c", ".", "j", "p", "e", "g">>, <<"e", ".", "p", "n", "g">>, <<"n", "o", "t", "e", ".", "m", "d">>, <<"a", ".", "j", "p", "g", ".", "t", "m", "p">>, NoFilename }

\* filename && /\.(jpg|jpeg|png|webp)$/i.test(filename)   (line 53)
IsWatchedImage(filename) ==
    /\ filename # NoFilename
    /\ \E ext \in { <<".", "j", "p", "g">>, <<".", "j", "p", "e", "g">>, <<".", "p", "n", "g">>, <<".", "w", "e", "b", "p">> } :
           EndsWith(toLowerCase(filename), ext)

\* Mutant of ClearTimeout: the armed timer is left armed.
ClearTimeoutNot(armed) == armed

\* clearTimeout(watchImages.timeout) (line 57): the timer the last event
\* armed, if it has not fired, is cancelled.  Gives the timers still armed.
ClearTimeout(armed) == 0

\* Mutant of Busy: the test of isOptimizing is left out.
BusyNever == FALSE

\* if (isOptimizing)   (line 21)
Busy == isOptimizing

\* Mutant of BusyPending: the call made during a run leaves no trace.
BusyPendingLost == pendingOptimization

\* pendingOptimization = true   (line 22)
BusyPending == TRUE

\* The script at position pc with its module-level state (lines 17-18).
WatchAt(pc) ==
    /\ wpc = pc
    /\ isOptimizing = FALSE
    /\ pendingOptimization = FALSE
    /\ debounce = 0
    /\ reruns = 0
    /\ wevents = 0
    /\ wlast = "none"
    /\ wimages = 0
    /\ wactive = 0
    /\ wunserved = FALSE
    /\ wlate = "none"
    /\ wbursts = 0
    /\ wdcalls = 0
    /\ wfailed = FALSE

\* The script has been started: the initial optimization is running (line 69).
WatchInit == WatchAt("initial")

\* No watcher has been started.
WatchIdle == WatchAt("none")

\* await optimizeArticleImages() of line 69 settles.  main catches a
\* failure of processDirectory itself and ends the process
\* (optimize-article-images.js lines 184-196); otherwise watchImages() is
\* called and the watch begins (lines 73, 47).
InitialOptimizationEnds ==
    /\ wpc = "initial"
    /\ \E ok \in BOOLEAN : wpc' = IF ok THEN "watching" ELSE "exited"
    /\ UNCHANGED <<isOptimizing, pendingOptimization, debounce, reruns, wevents,
                   wlast, wimages, wactive, wunserved, wlate, wbursts, wdcalls,
                   wfailed>>
    /\ UNCHANGED notWatch

\* One turn of the for await loop (lines 49-60): an event with this filename.
ChangeEvent(filename) ==
    /\ wpc = "watching"
    /\ wevents < MaxEvents
    /\ wevents' = wevents + 1
    /\ wlast' = filename
    /\ IF IsWatchedImage(filename)
       THEN /\ debounce' = ClearTimeout(debounce) + 1
            /\ wunserved' = TRUE
            /\ wlate' = IF isOptimizing /\ wlate = "none" THEN "waiting" ELSE wlate
            /\ wbursts' = IF debounce = 0 THEN wbursts + 1 ELSE wbursts
            /\ wimages' = wimages + 1
       ELSE UNCHANGED <<debounce, wunserved, wlate, wbursts, wimages>>
    /\ UNCHANGED <<wpc, isOptimizing, pendingOptimization, reruns, wactive,
                   wdcalls, wfailed>>
    /\ UNCHANGED notWatch

\* runOptimization up to its await (lines 20-31).
RunOptimization ==
    IF Busy
    THEN /\ pendingOptimization' = BusyPending
         /\ UNCHANGED <<isOptimizing, wactive, wunserved, wlate>>
    ELSE /\ isOptimizing' = TRUE
         /\ pendingOptimization' = FALSE
         /\ wactive' = wactive + 1
         /\ wunserved' = FALSE
         /\ wlate' = IF wlate = "waiting" THEN "served" ELSE wlate

\* The timer of line 58 fires: setTimeout(runOptimization, 500).
DebounceFires ==
    /\ wpc = "watching"
    /\ debounce > 0
    /\ debounce' = debounce - 1
    /\ wdcalls' = wdcalls + 1
    /\ RunOptimization
    /\ UNCHANGED <<wpc, reruns, wevents, wlast, wimages, wbursts, wfailed>>
    /\ UNCHANGED notWatch

\* A timer of line 40 fires: setTimeout(runOptimization, 1000).
RerunFires ==
    /\ wpc = "watching"
    /\ reruns > 0
    /\ reruns' = reruns - 1
    /\ RunOptimization
    /\ UNCHANGED <<wpc, debounce, wevents, wlast, wimages, wbursts, wdcalls,
                   wfailed>>
    /\ UNCHANGED notWatch

\* await optimizeArticleImages() of line 31 settles.  After a run without a
\* fatal error the finally block runs (lines 35-41).  When processDirectory
\* throws, main's own catch calls process.exit(1)
\* (optimize-article-images.js lines 193-196): the process ends there, and
\* neither the catch nor the finally block of runOptimization runs.
RunEnds ==
    /\ wpc = "watching"
    /\ wactive > 0
    /\ \E ok \in BOOLEAN :
         IF ok
         THEN /\ isOptimizing' = FALSE
              /\ reruns' = IF pendingOptimization THEN reruns + 1 ELSE reruns
              /\ wactive' = wactive - 1
              /\ UNCHANGED <<wpc, wfailed>>
         ELSE /\ wpc' = "exited"
              /\ wfailed' = TRUE
              /\ UNCHANGED <<isOptimizing, reruns, wactive>>
    /\ UNCHANGED <<pendingOptimization, debounce, wevents, wlast, wimages,
                   wunserved, wlate, wbursts, wdcalls>>
    /\ UNCHANGED notWatch

\* The watcher throws: the catch of lines 61-64 ends the process.
WatcherFails ==
    /\ wpc = "watching"
    /\ wpc' = "exited"
    /\ UNCHANGED <<isOptimizing, pendingOptimization, debounce, reruns, wevents,
                   wlast, wimages, wactive, wunserved, wlate, wbursts, wdcalls,
                   wfailed>>
    /\ UNCHANGED notWatch

C33_OneCallPerBurst ==
    /\ [](debounce <= 1 /\ wdcalls + debounce = wbursts)
    /\ [][wevents' = wevents + 1 =>
             IF IsWatchedImage(wlast')
             THEN debounce' = 1 /\ wdcalls' = wdcalls
             ELSE UNCHANGED <<debounce, wdcalls, wbursts>>]_vars

\* A burst of three image events, and one event for a file that is no
\* image, have been followed by the burst's one call.
C33_Witness ==
    /\ wimages = 3
    /\ wbursts = 1
    /\ wdcalls = 1
    /\ debounce = 0
    /\ wevents = 4
    /\ wlast = <<"n", "o", "t", "e", ".", "m", "d">>

\* C34: at most one optimization run started by the watcher is in progress
\* at any time, and isOptimizing tells whether one is; a runOptimization call
\* made by a timer while a run is in progress sets pendingOptimization and
\* starts no run.
C34_AtMostOneRun ==
    /\ [](wactive <= 1 /\ (isOptimizing <=> wactive = 1))
    /\ [][(isOptimizing /\ (debounce' = debounce - 1 \/ reruns' = reruns - 1)) =>
             /\ pendingOptimization'
             /\ wactive' = wactive
             /\ isOptimizing']_vars

\* The third debounce timer fired during a run that had started after an
\* image change made during the run before it: the call set the pending flag
\* and started no run.
C34_Witness ==
    /\ wpc = "watching"
    /\ wactive = 1
    /\ isOptimizing
    /\ pendingOptimization
    /\ wlate = "served"
    /\ reruns = 0
    /\ wdcalls = 3

\* C35 (as claimed): when an optimization run started by the watcher fails,
\* the failure is caught, isOptimizing is cleared and the watcher keeps
\* running.
C35_WatcherSurvivesFailedRun ==
    wfailed => (wpc = "watching" /\ ~isOptimizing)

WatchNext ==
    \/ InitialOptimizationEnds
    \/ \E filename \in WatchedNames : ChangeEvent(filename)
    \/ DebounceFires
    \/ RerunFires
    \/ RunEnds
    \/ WatcherFails

\* The fetcher at rest, while another component is looked at.
FetchIdle == FetchStart(<<>>)

CrawlSpecInit == CrawlInit /\ FetchIdle /\ TransIdle /\ ContentIdle /\ MigrateIdle /\ WatchIdle

CrawlSpec == CrawlSpecInit /\ [][CrawlNext]_vars

\* Every awaited operation eventually settles and every armed timer fires.
CrawlFairSpec == CrawlSpec /\ WF_vars(CrawlNext)

FetchSpecInit == CrawlInit /\ FetchInit /\ TransIdle /\ ContentIdle /\ MigrateIdle /\ WatchIdle

FetchSpec == FetchSpecInit /\ [][FetchNext]_vars

TransSpecInit == CrawlInit /\ FetchIdle /\ TransInit /\ ContentIdle /\ MigrateIdle /\ WatchIdle

TransSpec == TransSpecInit /\ [][TransNext]_vars

ContentSpecInit == CrawlInit /\ FetchIdle /\ TransIdle /\ ContentInit /\ MigrateIdle /\ WatchIdle

ContentSpec == ContentSpecInit /\ [][ContentNext]_vars

MigrateSpecInit == CrawlInit /\ FetchIdle /\ TransIdle /\ ContentIdle /\ MigrateInit /\ WatchIdle

MigrateSpec == MigrateSpecInit /\ [][MigrateNext]_vars

WatchSpecInit == CrawlInit /\ FetchIdle /\ TransIdle /\ ContentIdle /\ MigrateIdle /\ WatchInit

WatchSpec == WatchSpecInit /\ [][WatchNext]_vars

\* Every armed timer fires and every optimization run ends; nothing is
\* assumed about the arrival of events or about failures.
WatchFairSpec ==
    /\ WatchSpec
    /\ WF_vars(InitialOptimizationEnds)
    /\ WF_vars(DebounceFires)
    /\ WF_vars(RerunFires)
    /\ WF_vars(RunEnds)

(***************************************************************************)
(* BATCHING OF THE CRAWLER AND OF THE FETCHER  (migrate.js main, commands  *)
(* 'crawl' and 'images': one of the two components is constructed and run) *)
(***************************************************************************)
\* No crawler has been constructed.
CrawlNone ==
    /\ cpc = "none"
    /\ visitedUrls = {}
    /\ pagesData = <<>>
    /\ internalLinks = <<>>
    /\ images = <<>>
    /\ errors = <<>>
    /\ currentBatch = <<>>
    /\ batchIdx = 0
    /\ task = [u \in Pages |-> "idle"]
    /\ fetches = [u \in Pages |-> 0]
    /\ siteLinks = [u \in Pages |-> {}]
    /\ linksDone = {}
    /\ raised = {}
    /\ fatal = {}
    /\ refused = {}

\* No fetcher has been constructed.
FetchNone ==
    /\ now = 1
    /\ fpc = "none"
    /\ frun = 1
    /\ imageList = <<>>
    /\ fbatchIdx = 0
    /\ ftask = <<>>
    /\ files = [f \in {} |-> "complete"]
    /\ downloadedImages = <<>>
    /\ ferrors = <<>>
    /\ manifest = NoManifest
    /\ started = <<>>
    /\ fraised = {}
    /\ ffatal = FALSE
    /\ prevClean = FALSE

\* Lists one entry longer than a batch whose entries all are the same
\* http URL: the whole first batch is downloading at once.
FullBatchLists ==
    { [i \in 1..(FetchBatchSize + 1) |-> x] : x \in {e \in ImageEntries : e.kind = "http"} }

\* A new ImageOptimizer about to work on list in the last run looked at,
\* with an empty output directory.
FetchLastRun(list) ==
    /\ now = 1
    /\ fpc = "init"
    /\ frun = MaxRuns
    /\ imageList = list
    /\ fbatchIdx = 0
    /\ ftask = [i \in 1..Len(list) |-> [pc |-> "idle", file |-> NoFile]]
    /\ files = [f \in {} |-> "complete"]
    /\ downloadedImages = <<>>
    /\ ferrors = <<>>
    /\ manifest = NoManifest
    /\ started = [i \in 1..Len(list) |-> 0]
    /\ fraised = {}
    /\ ffatal = FALSE
    /\ prevClean = FALSE

\* main (migrate.js lines 155-178): the crawler alone, or the fetcher alone.
BatchInit ==
    \E command \in {"crawl", "images"} :
        IF command = "crawl"
        THEN CrawlInit /\ FetchNone
        ELSE /\ CrawlNone
             /\ \/ \E list \in ImageLists : FetchStart(list)
                \/ \E list \in FullBatchLists : FetchLastRun(list)

BatchNext == CrawlNext \/ FetchNext

\* crawlPage calls that have started and not yet settled
PagesInFlight == {u \in Pages : task[u] \in InFlight}

\* processImage calls that have started and not yet settled
ImagesInFlight == {k \in 1..Len(imageList) : ftask[k].pc \in {"access", "request", "transfer"}}

BatchSpecInit == BatchInit /\ TransIdle /\ ContentIdle /\ MigrateIdle /\ WatchIdle

BatchSpec == BatchSpecInit /\ [][BatchNext]_vars

====
